---- MODULE Spec2Model ----
(***************************************************************************)
(* ChainDB of hsd (lib/blockchain/chaindb.js): the batch coordinator       *)
(* (start/put/del/drop/commit), the chain mutation engine (save,           *)
(* reconnect, disconnect, reset, removeChains, saveNames, compactTree),    *)
(* the name-tree application (_saveNames, connectNames, disconnectNames)   *)
(* and the read path (getEntryByHash, getTip) with its LRU caches.         *)
(*                                                                         *)
(* The writer is one sequential process whose position is pc; every        *)
(* action is the code between two suspension points (awaits).  Readers     *)
(* and a second caller of start() interleave at the suspension points.     *)
(***************************************************************************)
EXTENDS Integers, Sequences, FiniteSets, TLC

(***************************************************************************)
(* Bounds of the model and program constants.                              *)
(***************************************************************************)
\* Height of the longest chain of the block universe.
MaxHeight == 3
\* Height of the main-branch block the alternate branch forks from.
ForkHeight == 2
\* options.entryCache: capacity of the two entry LRUs.
EntryCache == 1
\* network.names.treeInterval.
TreeInterval == 2
\* consensus.ZERO_HASH.
ZERO_HASH == 0
\* I/O errors injected in one behaviour.
MaxFailures == 1
\* network.block.keepBlocks and network.block.pruneAfterHeight.
KeepBlocks == 1
PruneAfterHeight == 0

(***************************************************************************)
(* Optional values: null is the empty tuple, a present value x is <<x>>.   *)
(***************************************************************************)
Null == <<>>
Some(x) == <<x>>
Val(o) == o[1]

(***************************************************************************)
(* The block universe the caller draws from: a genesis block, branch A     *)
(* (hashes 101, 102, ...) built on genesis and branch B (hashes 20x)       *)
(* forking from branch A at ForkHeight.  A hash encodes its height.        *)
(***************************************************************************)
GenesisHash == 100
BranchA == {100 + h : h \in 1..MaxHeight}
BranchB == {200 + h : h \in (ForkHeight + 1)..MaxHeight}
Hashes == {GenesisHash} \cup BranchA \cup BranchB
Heights == 0..MaxHeight
HeightOf(b) == b % 100
PrevOf(b) ==
  IF b = GenesisHash THEN ZERO_HASH
  ELSE IF b \in BranchB /\ HeightOf(b) = ForkHeight + 1 THEN 100 + ForkHeight
  ELSE b - 1

\* Name hashes and the name states the blocks of the universe write.
\* A name state is a number; 0 is the null state (NameState.isNull()).
NameHashes == {1}
EmptyNames == [n \in NameHashes |-> 0]

\* The name states a block sets (its covenants), as nameHash -> state.
BlockNames(b) ==
  IF b = GenesisHash THEN [n \in {} |-> 0]
  ELSE IF HeightOf(b) % 3 = 0
    THEN (IF b \in BranchA THEN [n \in {} |-> 0] ELSE [n \in NameHashes |-> 0])
  ELSE [n \in NameHashes |-> b]

\* Name states after connecting the chain ending at block b.
RECURSIVE NamesAfter(_)
NamesAfter(b) ==
  IF b = GenesisHash THEN EmptyNames
  ELSE LET prev == NamesAfter(PrevOf(b))
           mine == BlockNames(b)
       IN [n \in NameHashes |-> IF n \in DOMAIN mine THEN mine[n] ELSE prev[n]]

\* The tree root committed on the chain ending at block b: the tree is
\* committed at the heights that are multiples of the tree interval.  The
\* root hash of an authenticated tree is a function of its content, so a
\* root is represented by the content it commits to.
RECURSIVE RootAfter(_)
RootAfter(b) ==
  IF HeightOf(b) % TreeInterval = 0 THEN NamesAfter(b)
  ELSE RootAfter(PrevOf(b))

\* ChainEntry of a block: the header commits to the tree root before it.
EntryOf(b) ==
  [hash |-> b, height |-> HeightOf(b), prevBlock |-> PrevOf(b),
   treeRoot |-> IF b = GenesisHash THEN EmptyNames ELSE RootAfter(PrevOf(b))]

isGenesis(entry) == entry.hash = GenesisHash

(***************************************************************************)
(* Records (lib/blockchain/records.js).                                    *)
(***************************************************************************)
\* new ChainState()
ChainState ==
  [tip |-> ZERO_HASH, tx |-> 0, coin |-> 0, value |-> 0, burned |-> 0,
   committed |-> FALSE]
\* ChainState.clone(): a fresh record injected with the counters.
ChainState_clone(s) == [s EXCEPT !.committed = FALSE]
\* ChainState.commit(hash): sets the tip, marks committed.
ChainState_commit(s, hash) == [s EXCEPT !.tip = hash, !.committed = TRUE]
\* ChainState.connect(block) / disconnect(block)
ChainState_connect(s, txs) == [s EXCEPT !.tx = @ + Len(txs)]
ChainState_disconnect(s, txs) == [s EXCEPT !.tx = @ - Len(txs)]
\* ChainState.add(coin) / spend(coin)
ChainState_add(s, output) ==
  [s EXCEPT !.coin = @ + 1, !.value = @ + output.value]
ChainState_spend(s, output) ==
  [s EXCEPT !.coin = @ - 1, !.value = @ - output.value]
\* ChainState.burn(coin) / unburn(coin)
ChainState_burn(s, output) == [s EXCEPT !.burned = @ + output.value]
ChainState_unburn(s, output) == [s EXCEPT !.burned = @ - output.value]
\* ChainState.encode() / decode(): the committed flag is not serialized.
ChainState_encode(s) ==
  [tip |-> s.tip, tx |-> s.tx, coin |-> s.coin, value |-> s.value,
   burned |-> s.burned]
ChainState_decode(r) ==
  [tip |-> r.tip, tx |-> r.tx, coin |-> r.coin, value |-> r.value,
   burned |-> r.burned, committed |-> FALSE]

\* new TreeState()
TreeState ==
  [treeRoot |-> EmptyNames, commitHeight |-> 0,
   compactionRoot |-> EmptyNames, compactionHeight |-> 0,
   committed |-> FALSE]
TreeState_clone(s) == [s EXCEPT !.committed = FALSE]
\* TreeState.commit(root, height)
TreeState_commit(s, root, height) ==
  [s EXCEPT !.treeRoot = root, !.commitHeight = height, !.committed = TRUE]
\* TreeState.compact(root, height)
TreeState_compact(s, root, height) ==
  [s EXCEPT !.compactionRoot = root, !.compactionHeight = height]
TreeState_encode(s) ==
  [treeRoot |-> s.treeRoot, commitHeight |-> s.commitHeight,
   compactionRoot |-> s.compactionRoot,
   compactionHeight |-> s.compactionHeight]
TreeState_decode(r) ==
  [treeRoot |-> r.treeRoot, commitHeight |-> r.commitHeight,
   compactionRoot |-> r.compactionRoot,
   compactionHeight |-> r.compactionHeight, committed |-> FALSE]

(***************************************************************************)
(* Key layout (lib/blockchain/layout.js) and the key-value store (bdb).    *)
(* A store is a function from its present keys to their values.            *)
(***************************************************************************)
layout_v(bit, hash) == <<"v", bit, hash>>
layout_V == <<"V">>
layout_O == <<"O">>
layout_R == <<"R">>
layout_s == <<"s">>
layout_D == <<"D">>
layout_h(hash) == <<"h", hash>>
layout_H(height) == <<"H", height>>
layout_e(hash) == <<"e", hash>>
layout_n(hash) == <<"n", hash>>
layout_p(hash) == <<"p", hash>>
layout_w(height) == <<"w", height>>
layout_c(hash, index) == <<"c", hash, index>>

EmptyStore == [k \in {} |-> 0]
db_has(d, k) == k \in DOMAIN d
\* db.get(key): null when the key is absent.
db_get(d, k) == IF k \in DOMAIN d THEN Some(d[k]) ELSE Null
db_put(d, k, v) == (k :> v) @@ d
db_del(d, k) == [x \in (DOMAIN d) \ {k} |-> d[x]]

PutOp(k, v) == [del |-> FALSE, key |-> k, value |-> Some(v)]
DelOp(k) == [del |-> TRUE, key |-> k, value |-> Null]

\* batch.write(): the operations of a batch applied in order, atomically.
RECURSIVE batch_write(_, _)
batch_write(d, ops) ==
  IF Len(ops) = 0 THEN d
  ELSE LET o == Head(ops)
       IN batch_write(IF o.del THEN db_del(d, o.key)
                      ELSE db_put(d, o.key, Val(o.value)), Tail(ops))

(***************************************************************************)
(* Blob store (lib/blockstore): blobs keyed by type and hash, and its      *)
(* batch with separate write and prune queues.                             *)
(***************************************************************************)
blob_block(hash) == <<"block", hash>>
blob_undo(hash) == <<"undo", hash>>
\* blocks.batch()
blocks_batch == [writes |-> <<>>, prunes |-> <<>>, written |-> FALSE]

RECURSIVE blob_prune(_, _)
blob_prune(b, keys) ==
  IF Len(keys) = 0 THEN b
  ELSE blob_prune(db_del(b, Head(keys)), Tail(keys))

(***************************************************************************)
(* LRU with a staged batch (blru).  items is ordered from the least to     *)
(* the most recently used; pending is null or the staged operations.       *)
(***************************************************************************)
NewLRU == [items |-> <<>>, pending |-> Null]
LRU_without(items, k) == SelectSeq(items, LAMBDA it : it.key # k)
LRU_has(c, k) == \E i \in 1..Len(c.items) : c.items[i].key = k
\* The value cached under k (only when LRU_has).
LRU_valueAt(c, k) ==
  c.items[CHOOSE i \in 1..Len(c.items) : c.items[i].key = k].value
\* get(key) moves a hit to the most recently used position.
LRU_touch(c, k) ==
  IF LRU_has(c, k)
  THEN [c EXCEPT !.items =
          Append(LRU_without(c.items, k), [key |-> k, value |-> LRU_valueAt(c, k)])]
  ELSE c
\* set(key, value) inserts or refreshes and evicts beyond the capacity.
LRU_set(c, k, v) ==
  IF EntryCache = 0 THEN c
  ELSE LET ins == Append(LRU_without(c.items, k), [key |-> k, value |-> v])
       IN [c EXCEPT !.items =
             IF Len(ins) > EntryCache THEN Tail(ins) ELSE ins]
LRU_remove(c, k) == [c EXCEPT !.items = LRU_without(c.items, k)]
LRU_start(c) == [c EXCEPT !.pending = Some(<<>>)]
LRU_drop(c) == [c EXCEPT !.pending = Null]
LRU_push(c, k, v) ==
  IF EntryCache = 0 THEN c
  ELSE [c EXCEPT !.pending =
          Some(Append(Val(@), [remove |-> FALSE, key |-> k, value |-> v]))]
LRU_unpush(c, k) ==
  IF EntryCache = 0 THEN c
  ELSE [c EXCEPT !.pending =
          Some(Append(Val(@), [remove |-> TRUE, key |-> k, value |-> 0]))]
RECURSIVE LRU_apply(_, _)
LRU_apply(c, ops) ==
  IF Len(ops) = 0 THEN c
  ELSE LET o == Head(ops)
       IN LRU_apply(IF o.remove THEN LRU_remove(c, o.key)
                    ELSE LRU_set(c, o.key, o.value), Tail(ops))
\* commit(): the staged operations applied in order.
LRU_commit(c) == [LRU_apply(c, Val(c.pending)) EXCEPT !.pending = Null]

(***************************************************************************)
(* StateCache: the versionbit states per (bit, block hash); updates are    *)
(* the entries set since the last commit or drop.                          *)
(***************************************************************************)
NewStateCache == [bits |-> {}, updates |-> <<>>]
\* set(bit, entry, state): a new state is cached and recorded as an update.
StateCache_set(c, bit, hash) ==
  IF <<bit, hash>> \in c.bits THEN c
  ELSE [bits |-> c.bits \cup {<<bit, hash>>},
        updates |-> Append(c.updates, [bit |-> bit, hash |-> hash])]
\* commit(): the updates are kept.
StateCache_commit(c) == [c EXCEPT !.updates = <<>>]
\* drop(): the updates are deleted from the cache.
StateCache_drop(c) ==
  [bits |-> c.bits \ {<<c.updates[i].bit, c.updates[i].hash>> :
                        i \in 1..Len(c.updates)},
   updates |-> <<>>]

(***************************************************************************)
(* Authenticated tree (urkel).  root is the current root; history holds    *)
(* the roots committed to the store, which inject() can rewind to.  A      *)
(* transaction is the content it has reached: it is created from the       *)
(* tree's root and keeps its own content when the tree is injected.        *)
(***************************************************************************)
NewTree == [root |-> EmptyNames, history |-> {}]
tree_rootHash(t) == t.root
tree_txn(t) == t.root
tree_canInject(t, root) == root = EmptyNames \/ root \in t.history
tree_inject(t, root) == [t EXCEPT !.root = root]
txn_insert(x, key, value) == [x EXCEPT ![key] = value]
txn_remove(x, key) == [x EXCEPT ![key] = 0]
txn_get(x, key) == x[key]
\* txn.commit(): the transaction's content becomes the tree's root.
txn_commit(t, x) == [root |-> x, history |-> t.history \cup {x}]
\* tree.compact(): only the current root survives.
tree_compact(t) == [root |-> t.root, history |-> {t.root}]

(***************************************************************************)
(* State of a ChainDB and of its collaborators.                            *)
(***************************************************************************)
VARIABLES
  db,                \* this.db: the key-value store
  blobs,             \* this.blocks: the blob store
  tree,              \* this.tree
  txn,               \* this.txn: the long-lived tree transaction
  state,             \* this.state
  treeState,         \* this.treeState
  pending,           \* this.pending (null or a ChainState)
  pendingTreeState,  \* this.pendingTreeState (null or a TreeState)
  current,           \* this.current (null or the batch's operations)
  blocksBatch,       \* this.blocksBatch (null or a blob batch)
  cacheHash,         \* this.cacheHash
  cacheHeight,       \* this.cacheHeight
  stateCache,        \* this.stateCache
  options,           \* this.options
  network,           \* this.network: the deployment table of the network
  pc,                \* position of the writer
  op,                \* the operation the writer executes and its arguments
  ret,               \* where the writer continues after commit() returns
  outcome,           \* how the last operation of the writer ended
  snap,              \* the state when the aborted operation started
  second,            \* result of a second caller's start()
  reader,            \* a reader of the chain: its position and its result
  failures,          \* number of I/O errors injected so far
  trip               \* a round trip under observation: its block, the
                     \* state it started from and the operations done

vars ==
  <<db, blobs, tree, txn, state, treeState, pending, pendingTreeState,
    current, blocksBatch, cacheHash, cacheHeight, stateCache, options,
    network, pc, op, ret, outcome, snap, second, reader, failures, trip>>

NoOp ==
  [name |-> "none", hash |-> ZERO_HASH, view |-> Null, target |-> ZERO_HASH]

\* A reader that is not reading.
NoRead == [pc |-> "idle", hash |-> ZERO_HASH, tip |-> FALSE, result |-> Null]

(***************************************************************************)
(* The deployment table of the network (lib/protocol/networks.js): the     *)
(* versionbit deployments by bit; the start time, timeout, threshold and   *)
(* window of a deployment are taken together as its parameters.            *)
(***************************************************************************)
Bits == {0, 1}
Params == {1, 2}
DeployTables == UNION {[B -> Params] : B \in SUBSET Bits}
\* The table of the network the node is built for.
MainDeploys == [b \in {0} |-> 1]
\* writeDeployments(b): one record per deployment of the network.
writeDeployments(net) ==
  {[bit |-> b, params |-> net[b]] : b \in DOMAIN net}
\* checkDeployments(): the bits of the persisted table whose deployment the
\* network does not have, or has with other parameters.
checkDeployments(raw, net) ==
  {d.bit : d \in {x \in raw : ~(x.bit \in DOMAIN net /\
                                net[x.bit] = x.params)}}

\* The state after the constructor.
Init ==
  /\ db = EmptyStore
  /\ blobs = EmptyStore
  /\ tree = NewTree
  /\ txn = tree_txn(NewTree)
  /\ state = ChainState
  /\ treeState = TreeState
  /\ pending = Null
  /\ pendingTreeState = Null
  /\ current = Null
  /\ blocksBatch = Null
  /\ cacheHash = NewLRU
  /\ cacheHeight = NewLRU
  /\ stateCache = NewStateCache
  /\ options = [spv |-> FALSE, prune |-> FALSE]
  /\ network = MainDeploys
  /\ pc = "new"
  /\ op = NoOp
  /\ ret = "idle"
  /\ outcome = "none"
  /\ snap = Null
  /\ second = "none"
  /\ reader = NoRead
  /\ failures = 0
  /\ trip = Null

\* What an operation must leave unchanged when it is aborted.
Snapshot ==
  [db |-> db, blobs |-> blobs, state |-> state, treeState |-> treeState,
   txn |-> txn, root |-> tree_rootHash(tree)]

(***************************************************************************)
(* The batch coordinator.  The fields of a ChainDB a batch touches are     *)
(* threaded through the synchronous code of an operation as one record.    *)
(***************************************************************************)
This ==
  [current |-> current, pending |-> pending,
   pendingTreeState |-> pendingTreeState, blocksBatch |-> blocksBatch,
   cacheHash |-> cacheHash, cacheHeight |-> cacheHeight,
   stateCache |-> stateCache, txn |-> txn, tree |-> tree, thrown |-> FALSE, uncaught |-> FALSE]

\* start() without its assertions: a batch is opened over the active one.
startNoAssert(t) ==
  [t EXCEPT
     !.current = Some(<<>>),
     !.pending = Some(ChainState_clone(state)),
     !.pendingTreeState = Some(TreeState_clone(treeState)),
     !.blocksBatch = IF options.spv THEN @ ELSE Some(blocks_batch),
     !.cacheHash = LRU_start(@),
     !.cacheHeight = LRU_start(@)]

\* start(): asserts that no batch is active, then opens one.
start(t) ==
  IF t.current # Null \/ t.pending # Null
  THEN [t EXCEPT !.thrown = TRUE]
  ELSE [t EXCEPT
          !.current = Some(<<>>),
          !.pending = Some(ChainState_clone(state)),
          !.pendingTreeState = Some(TreeState_clone(treeState)),
          !.blocksBatch = IF options.spv THEN @ ELSE Some(blocks_batch),
          !.cacheHash = LRU_start(@),
          !.cacheHeight = LRU_start(@)]

\* put(key, value) and del(key) on the current batch.
put(t, key, value) ==
  [t EXCEPT !.current = Some(Append(Val(@), PutOp(key, value)))]
del(t, key) ==
  [t EXCEPT !.current = Some(Append(Val(@), DelOp(key)))]

\* drop() that clears the batch but keeps the pending states.
dropKeepsPending(t) ==
  [t EXCEPT
     !.current = Null,
     !.blocksBatch = Null,
     !.cacheHash = LRU_drop(@),
     !.cacheHeight = LRU_drop(@),
     !.stateCache = StateCache_drop(@)]

\* drop(): forgets the batch and everything staged.
drop(t) ==
  [t EXCEPT
     !.current = Null,
     !.pending = Null,
     !.pendingTreeState = Null,
     !.blocksBatch = Null,
     !.cacheHash = LRU_drop(@),
     !.cacheHeight = LRU_drop(@),
     !.stateCache = StateCache_drop(@)]

\* The assignment of the threaded record back to the fields.
Assign(t) ==
  /\ current' = t.current
  /\ pending' = t.pending
  /\ pendingTreeState' = t.pendingTreeState
  /\ blocksBatch' = t.blocksBatch
  /\ cacheHash' = t.cacheHash
  /\ cacheHeight' = t.cacheHeight
  /\ stateCache' = t.stateCache
  /\ txn' = t.txn
  /\ tree' = t.tree

(***************************************************************************)
(* Views handed in by the caller (lib/coins/coinview.js).                  *)
(***************************************************************************)
\* Covenant types (lib/covenants/rules.js).
types ==
  [NONE |-> 0, CLAIM |-> 1, OPEN |-> 2, BID |-> 3, REVEAL |-> 4,
   REDEEM |-> 5, REGISTER |-> 6, UPDATE |-> 7, RENEW |-> 8, TRANSFER |-> 9,
   FINALIZE |-> 10, REVOKE |-> 11]

\* An output: its value, the type of its covenant, item 5 of the covenant
\* read as a u32 (the sequence of a claim), and whether it is a nulldata
\* output.
Output(value, type, u32) ==
  [value |-> value, type |-> type, u32 |-> u32, nulldata |-> FALSE]
Nulldata == [value |-> 0, type |-> types.NONE, u32 |-> 0, nulldata |-> TRUE]
isUnspendable(output) == output.nulldata
isRegister(output) == output.type = types.REGISTER
isClaim(output) == output.type = types.CLAIM
\* covenant.type >= types.REGISTER && covenant.type <= types.REVOKE
isLocked(output) ==
  output.type >= types.REGISTER /\ output.type <= types.REVOKE

TX(hash, inputs, outputs) ==
  [hash |-> hash, inputs |-> inputs, outputs |-> outputs]

\* The transactions of the blocks, the coinbase first.  Transaction i of
\* block b has the hash 10 * b + i; an outpoint is <<hash, index>>.
\* Block 101 carries a claim that is not the first of its name, 102 spends
\* the genesis coin into a REGISTER, 103 spends the claim and the REGISTER
\* coin, 203 carries a first claim and spends a coin of 101.
block_txs(b) ==
  CASE b = 100 -> <<TX(1000, <<>>, <<Output(2, types.NONE, 0)>>)>>
    [] b = 101 -> <<TX(1010, <<>>, <<Output(1, types.NONE, 0),
                                     Output(3, types.CLAIM, 2)>>)>>
    [] b = 102 -> <<TX(1020, <<>>, <<Output(1, types.NONE, 0), Nulldata>>),
                    TX(1021, <<<<1000, 0>>>>,
                       <<Output(1, types.REGISTER, 0),
                         Output(1, types.NONE, 0)>>)>>
    [] b = 103 -> <<TX(1030, <<>>, <<Output(1, types.NONE, 0)>>),
                    TX(1031, <<<<1010, 1>>, <<1021, 0>>>>,
                       <<Output(1, types.UPDATE, 0),
                         Output(3, types.NONE, 0)>>)>>
    [] b = 203 -> <<TX(2030, <<>>, <<Output(2, types.CLAIM, 1)>>),
                    TX(2031, <<<<1010, 0>>>>,
                       <<Output(1, types.NONE, 0)>>)>>
    [] OTHER -> <<TX(10 * b, <<>>, <<Output(1, types.NONE, 0)>>)>>

\* Transactions of a block (block.txs.length).
TxCount(b) == Len(block_txs(b))

\* The output an outpoint names.
OutputAt(prevout) ==
  block_txs(prevout[1] \div 10)[(prevout[1] % 10) + 1].outputs[prevout[2] + 1]

\* The inputs of the transactions after the coinbase, in block order.
RECURSIVE InputsOf(_)
InputsOf(txs) ==
  IF Len(txs) = 0 THEN <<>>
  ELSE Head(txs).inputs \o InputsOf(Tail(txs))
block_inputs(b) == InputsOf(Tail(block_txs(b)))

\* The outpoints of the outputs of a sequence of transactions.
OutpointsOf(txs) ==
  UNION {{<<txs[i].hash, k - 1>> : k \in 1..Len(txs[i].outputs)} :
           i \in 1..Len(txs)}
Spendable(txs) == {o \in OutpointsOf(txs) : ~isUnspendable(OutputAt(o))}

\* A coin entry of a view.
CoinEntry(output, spent) == [output |-> output, spent |-> spent]

\* The view the caller built while verifying block b against the current
\* name states and coins (CoinView.spendInputs, CoinView.addTX): the coins
\* the block spends, marked spent and logged in undo in input order, the
\* spendable outputs it creates, the name states it sets and, for the
\* names it changes, the delta that restores the state before the block.
ConnectView(b) ==
  LET nm == BlockNames(b)
      ins == block_inputs(b)
      spent == {ins[i] : i \in 1..Len(ins)}
      made == Spendable(block_txs(b))
  IN [names |-> nm,
      deltas |-> [n \in {x \in DOMAIN nm : txn_get(txn, x) # nm[x]} |->
                    txn_get(txn, n)],
      coins |-> [o \in spent \cup made |->
                   CoinEntry(OutputAt(o), o \in spent)],
      undo |-> [i \in 1..Len(ins) |-> OutputAt(ins[i])]]
\* new CoinView()
EmptyView ==
  [names |-> [n \in {} |-> 0], deltas |-> [n \in {} |-> 0],
   coins |-> [o \in {} |-> 0], undo |-> <<>>]

(***************************************************************************)
(* Name-state application.                                                 *)
(***************************************************************************)
\* The loop of _saveNames: null states are removed, others inserted.
RECURSIVE txn_apply(_, _, _)
txn_apply(x, names, todo) ==
  IF todo = {} THEN x
  ELSE LET n == CHOOSE k \in todo : TRUE
       IN txn_apply(IF names[n] = 0 THEN txn_remove(x, n)
                    ELSE txn_insert(x, n, names[n]), names, todo \ {n})

\* _saveNames that commits the root of the header instead of the root the
\* tree has after txn.commit().
saveNamesHeaderRoot(t, view, entry, revert, ioFail) ==
  LET commit(t1) ==
        IF entry.height % TreeInterval = 0
        THEN IF ioFail \/ (revert /\ ~tree_canInject(t1.tree, entry.treeRoot))
             THEN [t1 EXCEPT !.thrown = TRUE]
             ELSE LET tr == IF revert
                            THEN tree_inject(t1.tree, entry.treeRoot)
                            ELSE txn_commit(t1.tree, t1.txn)
                      ts == TreeState_commit(Val(t1.pendingTreeState),
                                             entry.treeRoot, entry.height)
                  IN put([t1 EXCEPT !.tree = tr,
                                    !.pendingTreeState = Some(ts)],
                         layout_s, TreeState_encode(ts))
        ELSE t1
  IN commit([t EXCEPT !.txn = txn_apply(@, view.names, DOMAIN view.names)])

\* _saveNames that commits or injects at every height.
saveNamesEveryBlock(t, view, entry, revert, ioFail) ==
  LET commit(t1) ==
        IF ioFail \/ (revert /\ ~tree_canInject(t1.tree, entry.treeRoot))
        THEN [t1 EXCEPT !.thrown = TRUE]
        ELSE LET tr == IF revert
                       THEN tree_inject(t1.tree, entry.treeRoot)
                       ELSE txn_commit(t1.tree, t1.txn)
                 ts == TreeState_commit(Val(t1.pendingTreeState),
                                        tree_rootHash(tr), entry.height)
             IN put([t1 EXCEPT !.tree = tr,
                               !.pendingTreeState = Some(ts)],
                    layout_s, TreeState_encode(ts))
  IN commit([t EXCEPT !.txn = txn_apply(@, view.names, DOMAIN view.names)])

\* _saveNames that rebuilds the txn from the tree after the inject of its
\* revert path.
saveNamesRebuilds(t, view, entry, revert, ioFail) ==
  LET commit(t1) ==
        IF entry.height % TreeInterval = 0
        THEN IF ioFail \/ (revert /\ ~tree_canInject(t1.tree, entry.treeRoot))
             THEN [t1 EXCEPT !.thrown = TRUE]
             ELSE LET tr == IF revert
                            THEN tree_inject(t1.tree, entry.treeRoot)
                            ELSE txn_commit(t1.tree, t1.txn)
                      ts == TreeState_commit(Val(t1.pendingTreeState),
                                             tree_rootHash(tr), entry.height)
                  IN put([t1 EXCEPT !.tree = tr,
                                    !.txn = IF revert THEN tree_txn(tr) ELSE @,
                                    !.pendingTreeState = Some(ts)],
                         layout_s, TreeState_encode(ts))
        ELSE t1
  IN commit([t EXCEPT !.txn = txn_apply(@, view.names, DOMAIN view.names)])

\* _saveNames(view, entry, revert); ioFail: the tree I/O of the commit or
\* inject throws.
saveNames_(t, view, entry, revert, ioFail) ==
  LET commit(t1) ==
        IF entry.height % TreeInterval = 0
        THEN IF ioFail \/ (revert /\ ~tree_canInject(t1.tree, entry.treeRoot))
             THEN [t1 EXCEPT !.thrown = TRUE]
             ELSE LET tr == IF revert
                            THEN tree_inject(t1.tree, entry.treeRoot)
                            ELSE txn_commit(t1.tree, t1.txn)
                      ts == TreeState_commit(Val(t1.pendingTreeState),
                                             tree_rootHash(tr), entry.height)
                  IN put([t1 EXCEPT !.tree = tr,
                                    !.pendingTreeState = Some(ts)],
                         layout_s, TreeState_encode(ts))
        ELSE t1
  IN commit([t EXCEPT !.txn = txn_apply(@, view.names, DOMAIN view.names)])

\* connectNames(view, entry)
connectNames(t, view, entry, ioFail) ==
  LET t1 == IF DOMAIN view.deltas = {}
            THEN del(t, layout_w(entry.height))
            ELSE put(t, layout_w(entry.height), view.deltas)
  IN saveNames_(t1, view, entry, FALSE, ioFail)

\* disconnectNames(view, entry): the undo record of the height gives the
\* states to restore.
disconnectNames(t, view, entry, ioFail) ==
  LET raw == db_get(db, layout_w(entry.height))
  IN IF raw # Null
     THEN saveNames_(del(t, layout_w(entry.height)),
                     [view EXCEPT !.names = Val(raw)], entry, TRUE, ioFail)
     ELSE saveNames_(t, view, entry, TRUE, ioFail)

(***************************************************************************)
(* Block application.                                                      *)
(***************************************************************************)
blocks_write(t, key, value) ==
  [t EXCEPT !.blocksBatch =
     Some([Val(@) EXCEPT !.writes = Append(@, PutOp(key, value))])]
blocks_prune(t, key) ==
  [t EXCEPT !.blocksBatch =
     Some([Val(@) EXCEPT !.prunes = Append(@, key)])]

\* getHash(height): the height cache, else the H record.
getHash(t, height) ==
  IF height < 0 THEN [t |-> t, hash |-> Null]
  ELSE IF LRU_has(t.cacheHeight, height)
    THEN [t |-> [t EXCEPT !.cacheHeight = LRU_touch(@, height)],
          hash |-> Some(LRU_valueAt(t.cacheHeight, height))]
  ELSE [t |-> t, hash |-> db_get(db, layout_H(height))]

\* getUndoCoins(hash): the undo blob, or empty undo coins.
getUndoCoins(hash) ==
  LET data == db_get(blobs, blob_undo(hash))
  IN IF data = Null THEN <<>> ELSE Val(data)

\* saveView(view): every spent coin of the view is deleted, every other
\* coin is put.  The blocks of the universe carry no airdrop proof, so the
\* bit field of the view is empty and f is not written.
RECURSIVE saveCoins(_, _, _)
saveCoins(t, coins, todo) ==
  IF todo = {} THEN t
  ELSE LET o == CHOOSE k \in todo : TRUE
       IN saveCoins(IF coins[o].spent THEN del(t, layout_c(o[1], o[2]))
                    ELSE put(t, layout_c(o[1], o[2]), coins[o].output),
                    coins, todo \ {o})
\* saveView that leaves the records of the spent coins in place.
saveViewKeepsSpent(t, view) ==
  saveCoins(t, view.coins, {o \in DOMAIN view.coins : ~view.coins[o].spent})
\* saveView(view)
saveView(t, view) == saveCoins(t, view.coins, DOMAIN view.coins)

\* pruneBlock(entry): with pruning enabled, the blobs of the block
\* keepBlocks below the entry are queued for deletion.
pruneBlock(t, entry) ==
  IF options.spv \/ ~options.prune THEN t
  ELSE LET height == entry.height - KeepBlocks
       IN IF height <= PruneAfterHeight THEN t
          ELSE LET queue(r) ==
                     IF r.hash = Null THEN r.t
                     ELSE blocks_prune(blocks_prune(r.t,
                                                    blob_undo(Val(r.hash))),
                                       blob_block(Val(r.hash)))
               IN queue(getHash(t, height))

\* The input loop of connectBlock: the value of every spent output outside
\* the locked range is subtracted.
RECURSIVE spendInputs(_, _, _)
spendInputs(s, view, inputs) ==
  IF Len(inputs) = 0 THEN s
  ELSE LET output == view.coins[Head(inputs)].output
       IN spendInputs(IF isLocked(output) THEN s
                      ELSE ChainState_spend(s, output), view, Tail(inputs))

\* The output loop of connectBlock that also credits the claims after the
\* first of their name.
RECURSIVE addOutputsEveryClaim(_, _)
addOutputsEveryClaim(s, outputs) ==
  IF Len(outputs) = 0 THEN s
  ELSE LET output == Head(outputs)
           s1 == IF isUnspendable(output) THEN s
                 ELSE IF isRegister(output) THEN ChainState_burn(s, output)
                 ELSE IF isLocked(output) THEN s
                 ELSE ChainState_add(s, output)
       IN addOutputsEveryClaim(s1, Tail(outputs))

\* The output loop of connectBlock: REGISTER burns, the locked range is
\* skipped, a claim counts only when it is the first, anything else is
\* added.
RECURSIVE addOutputs(_, _)
addOutputs(s, outputs) ==
  IF Len(outputs) = 0 THEN s
  ELSE LET output == Head(outputs)
           s1 == IF isUnspendable(output) THEN s
                 ELSE IF isRegister(output) THEN ChainState_burn(s, output)
                 ELSE IF isLocked(output) THEN s
                 ELSE IF isClaim(output) /\ output.u32 # 1 THEN s
                 ELSE ChainState_add(s, output)
       IN addOutputs(s1, Tail(outputs))

\* The transaction loop of connectBlock; i is the index of Head(txs).
RECURSIVE connectTXs(_, _, _, _)
connectTXs(s, view, txs, i) ==
  IF Len(txs) = 0 THEN s
  ELSE LET tx == Head(txs)
           s1 == IF i > 0 THEN spendInputs(s, view, tx.inputs) ELSE s
       IN connectTXs(addOutputs(s1, tx.outputs), view, Tail(txs), i + 1)

\* connectBlock that writes no undo coins.
connectBlockNoUndo(t, entry, view, ioFail) ==
  IF options.spv THEN t
  ELSE LET txs == block_txs(entry.hash)
           t1 == [t EXCEPT !.pending =
                    Some(connectTXs(ChainState_connect(Val(@), txs), view,
                                    txs, 0))]
       IN connectNames(pruneBlock(saveView(t1, view), entry), view, entry,
                       ioFail)

\* connectBlock(entry, block, view)
connectBlock(t, entry, view, ioFail) ==
  IF options.spv THEN t
  ELSE LET txs == block_txs(entry.hash)
           t1 == [t EXCEPT !.pending =
                    Some(connectTXs(ChainState_connect(Val(@), txs), view,
                                    txs, 0))]
           writeUndo(t2) ==
             IF Len(view.undo) # 0
             THEN blocks_write(t2, blob_undo(entry.hash), view.undo)
             ELSE t2
       IN connectNames(pruneBlock(writeUndo(saveView(t1, view)), entry),
                       view, entry, ioFail)

\* The input loop of disconnectBlock, the inputs taken last first:
\* undo.apply pops the last undo coin into the view and the value of a
\* coin outside the locked range is added back.  r is the view, the
\* remaining undo coins, the counters and whether undo.apply found no coin.
RECURSIVE applyUndo(_, _)
applyUndo(r, inputs) ==
  IF Len(inputs) = 0 \/ r.thrown THEN r
  ELSE IF Len(r.undo) = 0 THEN [r EXCEPT !.thrown = TRUE]
  ELSE LET prevout == inputs[Len(inputs)]
           output == r.undo[Len(r.undo)]
       IN applyUndo(
            [r EXCEPT
               !.undo = SubSeq(@, 1, Len(@) - 1),
               !.coins = [o \in DOMAIN @ \cup {prevout} |->
                            IF o = prevout THEN CoinEntry(output, FALSE)
                            ELSE @[o]],
               !.s = IF isLocked(output) THEN @
                     ELSE ChainState_add(@, output)],
            SubSeq(inputs, 1, Len(inputs) - 1))

\* The output loop of disconnectBlock that debits every claim.
RECURSIVE spendOutputsEveryClaim(_, _)
spendOutputsEveryClaim(s, outputs) ==
  IF Len(outputs) = 0 THEN s
  ELSE LET output == outputs[Len(outputs)]
           s1 == IF isUnspendable(output) THEN s
                 ELSE IF isRegister(output) THEN ChainState_unburn(s, output)
                 ELSE IF isLocked(output) THEN s
                 ELSE ChainState_spend(s, output)
       IN spendOutputsEveryClaim(s1, SubSeq(outputs, 1, Len(outputs) - 1))

\* The output loop of disconnectBlock.
RECURSIVE spendOutputs(_, _)
spendOutputs(s, outputs) ==
  IF Len(outputs) = 0 THEN s
  ELSE LET output == outputs[Len(outputs)]
           s1 == IF isUnspendable(output) THEN s
                 ELSE IF isRegister(output) THEN ChainState_unburn(s, output)
                 ELSE IF isLocked(output) THEN s
                 ELSE IF isClaim(output) /\ output.u32 # 1 THEN s
                 ELSE ChainState_spend(s, output)
       IN spendOutputs(s1, SubSeq(outputs, 1, Len(outputs) - 1))

\* The transaction loop of disconnectBlock, the transactions taken last
\* first: the inputs are restored from undo, view.removeTX marks the
\* outputs spent, the counters are reversed.
RECURSIVE disconnectTXs(_, _)
disconnectTXs(r, txs) ==
  IF Len(txs) = 0 \/ r.thrown THEN r
  ELSE LET i == Len(txs) - 1
           tx == txs[Len(txs)]
           r1 == IF i = 0 THEN r ELSE applyUndo(r, tx.inputs)
           outs == {<<tx.hash, k - 1>> : k \in 1..Len(tx.outputs)}
           r2 == [r1 EXCEPT
                    !.coins = [o \in DOMAIN @ \cup outs |->
                                 IF o \in outs
                                 THEN CoinEntry(OutputAt(o), TRUE)
                                 ELSE @[o]],
                    !.s = spendOutputs(@, tx.outputs)]
       IN IF r1.thrown THEN r1
          ELSE disconnectTXs(r2, SubSeq(txs, 1, Len(txs) - 1))

\* disconnectBlock without the assertion that the undo coins are used up.
disconnectBlockLenient(t, entry, ioFail) ==
  IF options.spv THEN t
  ELSE LET txs == block_txs(entry.hash)
           names(t3, view) == disconnectNames(t3, view, entry, ioFail)
           coins(t1, view) ==
             names(blocks_prune(saveView(t1, view), blob_undo(entry.hash)),
                   view)
           after(r) ==
             IF r.thrown THEN [t EXCEPT !.thrown = TRUE]
             ELSE coins([t EXCEPT !.pending = Some(r.s)],
                        [EmptyView EXCEPT !.coins = r.coins])
       IN after(disconnectTXs(
                  [coins |-> EmptyView.coins,
                   undo |-> getUndoCoins(entry.hash),
                   s |-> ChainState_disconnect(Val(t.pending), txs),
                   thrown |-> FALSE], txs))

\* disconnectBlock(entry, block)
disconnectBlock(t, entry, ioFail) ==
  IF options.spv THEN t
  ELSE LET txs == block_txs(entry.hash)
           names(t3, view) == disconnectNames(t3, view, entry, ioFail)
           coins(t1, view) ==
             names(blocks_prune(saveView(t1, view), blob_undo(entry.hash)),
                   view)
           after(r) ==
             IF r.thrown \/ Len(r.undo) # 0 THEN [t EXCEPT !.thrown = TRUE]
             ELSE coins([t EXCEPT !.pending = Some(r.s)],
                        [EmptyView EXCEPT !.coins = r.coins])
       IN after(disconnectTXs(
                  [coins |-> EmptyView.coins,
                   undo |-> getUndoCoins(entry.hash),
                   s |-> ChainState_disconnect(Val(t.pending), txs),
                   thrown |-> FALSE], txs))

\* saveBlock(entry, block, view)
saveBlock(t, entry, view, ioFail) ==
  IF options.spv THEN t
  ELSE LET t1 == blocks_write(t, blob_block(entry.hash), entry.hash)
       IN IF view = Null THEN t1
          ELSE connectBlock(t1, entry, Val(view), ioFail)

\* pending.commit(hash) written to R.
putState(t, hash) ==
  LET st == ChainState_commit(Val(t.pending), hash)
  IN put([t EXCEPT !.pending = Some(st)], layout_R, ChainState_encode(st))

\* saveUpdates(): every update of the state cache is put as a v record.
RECURSIVE putUpdates(_, _)
putUpdates(t, updates) ==
  IF Len(updates) = 0 THEN t
  ELSE putUpdates(put(t, layout_v(Head(updates).bit, Head(updates).hash),
                      Head(updates)), Tail(updates))
saveUpdates(t) == putUpdates(t, t.stateCache.updates)

\* _save that writes the height->hash index of a block it only stores.
saveIndexesStored(t, entry, view, ioFail) ==
  LET t1 == put(t, layout_h(entry.hash), entry.height)
      t2 == put(t1, layout_e(entry.hash), entry)
      t3 == [t2 EXCEPT !.cacheHash = LRU_push(@, entry.hash, entry.hash)]
      t4 == del(t3, layout_p(entry.prevBlock))
      t4b == put(t4, layout_p(entry.hash), Null)
      state_(t9) == IF t9.thrown THEN t9 ELSE putState(t9, entry.hash)
      next(t5) == IF isGenesis(entry) THEN t5
                  ELSE put(t5, layout_n(entry.prevBlock), entry.hash)
      index(t5) == put(next(t5), layout_H(entry.height), entry.hash)
      main(t7) ==
        LET t8 == [t7 EXCEPT !.cacheHeight =
                     LRU_push(@, entry.height, entry.hash)]
        IN state_(saveBlock(t8, entry, view, ioFail))
      block(t7) ==
        IF view = Null THEN saveBlock(t7, entry, Null, ioFail) ELSE main(t7)
  IN block(index(saveUpdates(t4b)))

\* _save(entry, block, view)
save_(t, entry, view, ioFail) ==
  LET t1 == put(t, layout_h(entry.hash), entry.height)
      t2 == put(t1, layout_e(entry.hash), entry)
      t3 == [t2 EXCEPT !.cacheHash = LRU_push(@, entry.hash, entry.hash)]
      t4 == del(t3, layout_p(entry.prevBlock))
      t4b == put(t4, layout_p(entry.hash), Null)
      state_(t9) == IF t9.thrown THEN t9 ELSE putState(t9, entry.hash)
      next(t5) == IF isGenesis(entry) THEN t5
                  ELSE put(t5, layout_n(entry.prevBlock), entry.hash)
      main(t5) ==
        LET t7 == put(next(t5), layout_H(entry.height), entry.hash)
            t8 == [t7 EXCEPT !.cacheHeight =
                     LRU_push(@, entry.height, entry.hash)]
        IN state_(saveBlock(t8, entry, view, ioFail))
      block(t5) ==
        IF view = Null THEN saveBlock(t5, entry, Null, ioFail) ELSE main(t5)
  IN block(saveUpdates(t4b))

\* _reconnect that forgets the hash->next-block index.
reconnectNoNext(t, entry, view, ioFail) ==
  LET t2 == put(t, layout_H(entry.height), entry.hash)
      t3 == [t2 EXCEPT !.cacheHeight = LRU_push(@, entry.height, entry.hash)]
      t4 == [t3 EXCEPT !.cacheHash = LRU_push(@, entry.hash, entry.hash)]
      t4b == saveUpdates(t4)
      state_(t5) == IF t5.thrown THEN t5 ELSE putState(t5, entry.hash)
  IN state_(connectBlock(t4b, entry, Val(view), ioFail))

\* _reconnect(entry, block, view)
reconnect_(t, entry, view, ioFail) ==
  LET t1 == put(t, layout_n(entry.prevBlock), entry.hash)
      t2 == put(t1, layout_H(entry.height), entry.hash)
      t3 == [t2 EXCEPT !.cacheHeight = LRU_push(@, entry.height, entry.hash)]
      t4 == [t3 EXCEPT !.cacheHash = LRU_push(@, entry.hash, entry.hash)]
      t4b == saveUpdates(t4)
      state_(t5) == IF t5.thrown THEN t5 ELSE putState(t5, entry.hash)
  IN state_(connectBlock(t4b, entry, Val(view), ioFail))

\* _disconnect that leaves the height->hash index in place.
disconnectKeepsHeight(t, entry, ioFail) ==
  LET t1 == del(t, layout_n(entry.prevBlock))
      t3 == [t1 EXCEPT !.cacheHeight = LRU_unpush(@, entry.height)]
      t3b == saveUpdates(t3)
      state_(t4) == IF t4.thrown THEN t4 ELSE putState(t4, entry.prevBlock)
  IN state_(disconnectBlock(t3b, entry, ioFail))

\* _disconnect that moves the tip record to the previous block.
disconnectMovesTip(t, entry, ioFail) ==
  LET t1 == del(t, layout_n(entry.prevBlock))
      t2 == del(t1, layout_H(entry.height))
      t2b == put(del(t2, layout_p(entry.hash)), layout_p(entry.prevBlock),
                 Null)
      t3 == [t2b EXCEPT !.cacheHeight = LRU_unpush(@, entry.height)]
      t3b == saveUpdates(t3)
      state_(t4) == IF t4.thrown THEN t4 ELSE putState(t4, entry.prevBlock)
  IN state_(disconnectBlock(t3b, entry, ioFail))

\* _disconnect(entry, block)
disconnect_(t, entry, ioFail) ==
  LET t1 == del(t, layout_n(entry.prevBlock))
      t2 == del(t1, layout_H(entry.height))
      t3 == [t2 EXCEPT !.cacheHeight = LRU_unpush(@, entry.height)]
      t3b == saveUpdates(t3)
      state_(t4) == IF t4.thrown THEN t4 ELSE putState(t4, entry.prevBlock)
  IN state_(disconnectBlock(t3b, entry, ioFail))

(***************************************************************************)
(* Reads the writer performs itself.  A read returns the fields it         *)
(* changed (the caches) and its result.                                    *)
(***************************************************************************)
\* getEntryByHash(hash): the cache, else the e record, which is cached.
getEntryByHash(t, hash) ==
  IF hash = ZERO_HASH THEN [t |-> t, entry |-> Null]
  ELSE IF LRU_has(t.cacheHash, hash)
    THEN [t |-> [t EXCEPT !.cacheHash = LRU_touch(@, hash)],
          entry |-> Some(EntryOf(LRU_valueAt(t.cacheHash, hash)))]
  ELSE LET raw == db_get(db, layout_e(hash))
       IN IF raw = Null THEN [t |-> t, entry |-> Null]
          ELSE [t |-> [t EXCEPT !.cacheHash =
                         LRU_set(@, Val(raw).hash, Val(raw).hash)],
                entry |-> raw]

\* isMainChain(entry)
isMainChain(t, entry) ==
  IF isGenesis(entry) THEN [t |-> t, main |-> TRUE]
  ELSE IF entry.hash = state.tip THEN [t |-> t, main |-> TRUE]
  ELSE IF LRU_has(t.cacheHeight, entry.height)
    THEN [t |-> [t EXCEPT !.cacheHeight = LRU_touch(@, entry.height)],
          main |-> entry.hash = LRU_valueAt(t.cacheHeight, entry.height)]
  ELSE [t |-> t, main |-> db_has(db, layout_n(entry.hash))]

\* getTips(): the keys of the tip set, in key order.
RECURSIVE SortedSeq(_)
SortedSeq(S) ==
  IF S = {} THEN <<>>
  ELSE LET m == CHOOSE x \in S : \A y \in S : x <= y
       IN <<m>> \o SortedSeq(S \ {m})
getTips == SortedSeq({b \in Hashes : db_has(db, layout_p(b))})

\* The loop of _removeChain that leaves the e records in place.
RECURSIVE removeChainKeepsEntry(_, _)
removeChainKeepsEntry(t, tip) ==
  LET m == isMainChain(t, tip)
  IN IF m.main THEN m.t
     ELSE IF isGenesis(tip) THEN [m.t EXCEPT !.thrown = TRUE]
     ELSE LET t1 == del(m.t, layout_p(tip.hash))
              t2 == del(t1, layout_h(tip.hash))
              t4 == IF options.spv THEN t2
                    ELSE blocks_prune(t2, blob_block(tip.hash))
              t5 == [t4 EXCEPT !.cacheHash = LRU_unpush(@, tip.hash)]
              prev == getEntryByHash(t5, tip.prevBlock)
          IN IF prev.entry = Null THEN [prev.t EXCEPT !.thrown = TRUE]
             ELSE removeChainKeepsEntry(prev.t, Val(prev.entry))

\* The loop of _removeChain(hash), from the entry tip on.
RECURSIVE removeChainFrom(_, _)
removeChainFrom(t, tip) ==
  LET m == isMainChain(t, tip)
  IN IF m.main THEN m.t
     ELSE IF isGenesis(tip) THEN [m.t EXCEPT !.thrown = TRUE]
     ELSE LET t1 == del(m.t, layout_p(tip.hash))
              t2 == del(t1, layout_h(tip.hash))
              t3 == del(t2, layout_e(tip.hash))
              t4 == IF options.spv THEN t3
                    ELSE blocks_prune(t3, blob_block(tip.hash))
              t5 == [t4 EXCEPT !.cacheHash = LRU_unpush(@, tip.hash)]
              prev == getEntryByHash(t5, tip.prevBlock)
          IN IF prev.entry = Null THEN [prev.t EXCEPT !.thrown = TRUE]
             ELSE removeChainFrom(prev.t, Val(prev.entry))

\* _removeChain(hash)
removeChain_(t, hash) ==
  LET tip == getEntryByHash(t, hash)
  IN IF tip.entry = Null THEN [tip.t EXCEPT !.thrown = TRUE]
     ELSE removeChainFrom(tip.t, Val(tip.entry))

\* The body of removeChains(): one batch for all the tips.
RECURSIVE removeChains_(_, _)
removeChains_(t, tips) ==
  IF Len(tips) = 0 \/ t.thrown THEN t
  ELSE removeChains_(removeChain_(t, Head(tips)), Tail(tips))

\* removeBlock(entry)
removeBlock(t, entry, ioFail) ==
  IF options.spv THEN t
  ELSE IF ~db_has(blobs, blob_block(entry.hash))
    THEN [t EXCEPT !.thrown = TRUE]
  ELSE disconnectBlock(blocks_prune(t, blob_block(entry.hash)), entry, ioFail)

\* One iteration of the loop of reset(), after its start().
resetStep_(t, tip, target, ioFail) ==
  IF tip.hash = target THEN putState(t, tip.hash)
  ELSE IF isGenesis(tip) THEN [t EXCEPT !.thrown = TRUE, !.uncaught = TRUE]
  ELSE LET t1 == del(t, layout_p(tip.hash))
           t2 == put(t1, layout_p(tip.prevBlock), Null)
           t3 == del(t2, layout_H(tip.height))
           t4 == del(t3, layout_h(tip.hash))
           t5 == del(t4, layout_e(tip.hash))
           t6 == del(t5, layout_n(tip.prevBlock))
           state_(t7) ==
             IF t7.thrown THEN t7 ELSE putState(t7, tip.prevBlock)
       IN state_(removeBlock(t6, tip, ioFail))

(***************************************************************************)
(* The writer: operations issued by the chain, one at a time.              *)
(***************************************************************************)
Stored(b) == db_has(db, layout_h(b))
TipHeight == HeightOf(state.tip)
Others == <<db, blobs, state, treeState, options, network, reader>>

\* The synchronous head of every mutator: start(), from position `from`.
BeginOp(from, t0, o, r) ==
  /\ pc = from
  /\ LET t == start(t0)
     IN /\ ~t.thrown
        /\ Assign(t)
  /\ op' = o
  /\ ret' = r
  /\ pc' = "body"
  /\ outcome' = "running"
  /\ snap' = Some(Snapshot)
  /\ UNCHANGED <<Others, second, failures>>

\* An operation the chain issues on its own ends the observation of a
\* round trip.
Begin(from, t0, o, r) ==
  /\ BeginOp(from, t0, o, r)
  /\ trip' = Null

\* A caller-facing operation `name` throws before it starts a batch.
ThrowAs(t, name) ==
  /\ Assign(t)
  /\ pc' = "idle"
  /\ outcome' = "threw"
  /\ op' = [NoOp EXCEPT !.name = name]
  /\ trip' = Null
  /\ UNCHANGED <<Others, ret, snap, second, failures>>

\* reset() throws on one of its checks.
Throw(t) == ThrowAs(t, "reset")

\* open() of a fresh database: initialize().
Open ==
  /\ ~db_has(db, layout_V)
  /\ Begin("new", This,
           [NoOp EXCEPT !.name = "initialize", !.hash = GenesisHash,
                        !.view = Some(ConnectView(GenesisHash))], "open")

\* The tail of open(): this.txn = this.tree.txn().
OpenDone ==
  /\ pc = "open"
  /\ txn' = tree_txn(tree)
  /\ pc' = "idle"
  /\ outcome' = "ok"
  /\ UNCHANGED <<db, blobs, tree, state, treeState, pending, pendingTreeState,
                 current, blocksBatch, cacheHash, cacheHeight, options, network, stateCache, reader, trip, op,
                 ret, snap, second, failures>>

\* stateCache.set(bit, entry, state) for every bit of a set.
RECURSIVE StateCache_setAll(_, _, _)
StateCache_setAll(c, bits, hash) ==
  IF bits = {} THEN c
  ELSE LET b == CHOOSE x \in bits : \A y \in bits : x <= y
       IN StateCache_setAll(StateCache_set(c, b, hash), bits \ {b}, hash)

\* The chain computes the deployment states of the block it verifies and
\* caches them (stateCache.set) before it calls save() or reconnect(); the
\* states of the deployments of the network are computed for the blocks of
\* height TreeInterval.
Verified(b) ==
  IF HeightOf(b) = TreeInterval
  THEN [This EXCEPT !.stateCache =
          StateCache_setAll(@, DOMAIN network, PrevOf(b))]
  ELSE This

\* save(entry, block, view): the block extends the tip and is connected.
Save ==
  \E b \in Hashes :
    /\ ~Stored(b)
    /\ PrevOf(b) = state.tip
    /\ Begin("idle", Verified(b),
             [NoOp EXCEPT !.name = "save", !.hash = b,
                          !.view = Some(ConnectView(b))], "idle")

\* save(entry, block, null): a block with no more work than the tip is
\* stored on an alternate chain.
SaveAlternate ==
  \E b \in Hashes :
    /\ ~Stored(b)
    /\ Stored(PrevOf(b))
    /\ HeightOf(b) <= TipHeight
    /\ Begin("idle", This, [NoOp EXCEPT !.name = "save", !.hash = b], "idle")

\* reconnect(entry, block, view): a stored block on top of the tip.
Reconnect ==
  \E b \in Hashes :
    /\ Stored(b)
    /\ PrevOf(b) = state.tip
    /\ db_has(blobs, blob_block(b))
    /\ Begin("idle", Verified(b),
             [NoOp EXCEPT !.name = "reconnect", !.hash = b,
                          !.view = Some(ConnectView(b))], "idle")

\* disconnect(entry, block): the tip is disconnected.
Disconnect ==
  /\ state.tip # GenesisHash
  /\ db_has(blobs, blob_block(state.tip))
  /\ Begin("idle", This,
           [NoOp EXCEPT !.name = "disconnect", !.hash = state.tip], "idle")

\* A round trip under observation: the block, the view it was connected
\* with, the state the trip started from and the operations issued so far.
Trip(b, view, legs) ==
  Some([hash |-> b, view |-> view, base |-> Snapshot, legs |-> legs])

\* The last operation was leg `name` of the observed round trip and it
\* has committed.
TripAt(legs, name) ==
  /\ trip # Null
  /\ Val(trip).legs = legs
  /\ pc = "idle"
  /\ outcome = "ok"
  /\ op.name = name
  /\ op.hash = Val(trip).hash

\* save(entry, block, view) of a block that extends the tip, observed: the
\* state before it is kept.
TripSave ==
  \E b \in Hashes :
    /\ ~Stored(b)
    /\ PrevOf(b) = state.tip
    /\ BeginOp("idle", Verified(b),
               [NoOp EXCEPT !.name = "save", !.hash = b,
                            !.view = Some(ConnectView(b))], "idle")
    /\ trip' = Trip(b, Some(ConnectView(b)), <<"save">>)

\* disconnect(entry, block) right after the observed save has committed.
TripDisconnect ==
  /\ TripAt(<<"save">>, "save")
  /\ state.tip = Val(trip).hash
  /\ BeginOp("idle", This,
             [NoOp EXCEPT !.name = "disconnect", !.hash = state.tip], "idle")
  /\ trip' = Some([Val(trip) EXCEPT !.legs = <<"save", "disconnect">>])

\* disconnect(entry, block) right after the connect of the block has
\* committed, observed: the state after the connect is kept.
TripDisconnectFirst ==
  /\ pc = "idle"
  /\ outcome = "ok"
  /\ op.name \in {"save", "reconnect"}
  /\ op.view # Null
  /\ op.hash = state.tip
  /\ state.tip # GenesisHash
  /\ BeginOp("idle", This,
             [NoOp EXCEPT !.name = "disconnect", !.hash = state.tip], "idle")
  /\ trip' = Trip(state.tip, op.view, <<"disconnect">>)

\* reconnect(entry, block, view), with the view of the original connect,
\* right after the observed disconnect has committed.
TripReconnect ==
  /\ TripAt(<<"disconnect">>, "disconnect")
  /\ state.tip = PrevOf(Val(trip).hash)
  /\ BeginOp("idle", Verified(Val(trip).hash),
             [NoOp EXCEPT !.name = "reconnect", !.hash = Val(trip).hash,
                          !.view = Val(trip).view], "idle")
  /\ trip' = Some([Val(trip) EXCEPT !.legs = <<"disconnect", "reconnect">>])

\* reset(block), up to the start() of removeChains(): the checks, then
\* getTips().  The call is observed: the state before it is kept.
Reset ==
  \E b \in Hashes :
    LET e == getEntryByHash(This, b)
        m == isMainChain(e.t, Val(e.entry))
    IN /\ pc = "idle"
       /\ IF e.entry = Null THEN Throw(e.t)
          ELSE IF ~m.main \/ options.prune \/ treeState.compactionHeight # 0
            THEN Throw(m.t)
          ELSE /\ BeginOp("idle", m.t,
                          [NoOp EXCEPT !.name = "removeChains", !.target = b],
                          "reset_tip")
               /\ trip' = Trip(b, Null, <<"reset">>)

\* reset(): getTip() after removeChains(), then the first iteration.
ResetTip ==
  LET e == getEntryByHash(This, state.tip)
  IN /\ pc = "reset_tip"
     /\ e.entry # Null
     /\ BeginOp("reset_tip", e.t,
                [op EXCEPT !.name = "resetStep", !.hash = state.tip],
                IF state.tip = op.target THEN "idle" ELSE "reset_next")
     /\ UNCHANGED trip

\* reset(): after the commit of an iteration the caches are cleaned, the
\* previous entry is read and the next iteration starts.
ResetNext ==
  LET tip == EntryOf(op.hash)
      t1 == [This EXCEPT !.cacheHeight = LRU_remove(@, tip.height),
                         !.cacheHash = LRU_remove(@, tip.hash)]
      e == getEntryByHash(t1, tip.prevBlock)
  IN /\ pc = "reset_next"
     /\ e.entry # Null
     /\ BeginOp("reset_next", e.t, [op EXCEPT !.hash = tip.prevBlock],
                IF tip.prevBlock = op.target THEN "idle" ELSE "reset_next")
     /\ UNCHANGED trip

\* _initialize()
initialize_(t, ioFail) ==
  LET t1 == put(t, layout_V, 3)
      t2 == put(t1, layout_O, options)
      t3 == put(t2, layout_D, writeDeployments(network))
  IN save_(t3, EntryOf(GenesisHash), op.view, ioFail)

\* The body of the running operation, from start() to its commit().
Run(t, ioFail) ==
  CASE op.name = "initialize" -> initialize_(t, ioFail)
    [] op.name = "save" -> save_(t, EntryOf(op.hash), op.view, ioFail)
    [] op.name = "reconnect" -> reconnect_(t, EntryOf(op.hash), op.view, ioFail)
    [] op.name = "disconnect" -> disconnect_(t, EntryOf(op.hash), ioFail)
    [] op.name = "removeChains" -> removeChains_(t, getTips)
    [] op.name = "resetStep" ->
         resetStep_(t, EntryOf(op.hash), op.target, ioFail)
    [] op.name = "saveNames" ->
         saveNames_(t, Val(op.view), EntryOf(op.hash), FALSE, ioFail)

Home == IF op.name = "initialize" THEN "new" ELSE "idle"

\* The body throws; the catch block drops the batch and rethrows.
Abort(t) ==
  /\ Assign(IF t.uncaught THEN t ELSE drop(t))
  /\ pc' = Home
  /\ outcome' = "dropped"
  /\ second' = "none"
  /\ UNCHANGED <<Others, op, ret, snap, trip>>

\* The body runs to its end and commit() is entered, or it throws.
Body ==
  /\ pc = "body"
  /\ LET ends(t) ==
           IF t.thrown
           THEN Abort(t) /\ UNCHANGED failures
           ELSE /\ Assign(t)
                /\ pc' = "commit"
                /\ UNCHANGED <<Others, op, ret, outcome, snap, second,
                               failures, trip>>
     IN ends(Run(This, FALSE))

\* An I/O error before the name tree is touched (a blob or key-value read
\* of the body fails).
BodyThrowsEarly ==
  /\ pc = "body"
  /\ failures < MaxFailures
  /\ ~(op.name = "resetStep" /\ op.hash = op.target)
  /\ failures' = failures + 1
  /\ Abort(This)

\* An I/O error of the tree: the commit or inject of _saveNames throws.
BodyThrowsTree ==
  /\ pc = "body"
  /\ failures < MaxFailures
  /\ ~Run(This, FALSE).thrown
  /\ failures' = failures + 1
  /\ LET ends(t) == t.thrown /\ Abort(t)
     IN ends(Run(This, TRUE))

(***************************************************************************)
(* commit()                                                                *)
(***************************************************************************)
\* The first n writes of the blob batch reach the blob store.
RECURSIVE blob_write(_, _, _)
blob_write(b, writes, n) ==
  IF n = 0 \/ Len(writes) = 0 THEN b
  ELSE blob_write(db_put(b, Head(writes).key, Val(Head(writes).value)),
                  Tail(writes), n - 1)

\* A catch block of commit() that rethrows without forgetting the batch.
CommitCatchKeepsBatch ==
  /\ UNCHANGED <<current, pending, pendingTreeState>>
  /\ cacheHash' = LRU_drop(cacheHash)
  /\ cacheHeight' = LRU_drop(cacheHeight)
  /\ blocksBatch' = Null
  /\ pc' = IF op.name = "initialize" THEN "new" ELSE "idle"
  /\ outcome' = "commitFailed"
  /\ second' = "none"
  /\ failures' = failures + 1

\* The catch block of commit(): the batch is forgotten, the error rethrown.
CommitCatch ==
  /\ current' = Null
  /\ pending' = Null
  /\ pendingTreeState' = Null
  /\ cacheHash' = LRU_drop(cacheHash)
  /\ cacheHeight' = LRU_drop(cacheHeight)
  /\ blocksBatch' = Null
  /\ pc' = Home
  /\ outcome' = "commitFailed"
  /\ second' = "none"
  /\ failures' = failures + 1

\* A step 1 that also runs commitPrunes() before the key-value write.
CommitWritesAndPrunes ==
  /\ pc = "commit"
  /\ IF blocksBatch # Null
     THEN /\ blobs' = blob_prune(blob_write(blobs, Val(blocksBatch).writes,
                                            Len(Val(blocksBatch).writes)),
                                 Val(blocksBatch).prunes)
          /\ blocksBatch' = Some([Val(blocksBatch) EXCEPT !.written = TRUE])
     ELSE UNCHANGED <<blobs, blocksBatch>>
  /\ pc' = "commit_kv"
  /\ UNCHANGED <<db, tree, txn, state, treeState, pending, pendingTreeState,
                 current, cacheHash, cacheHeight, options, network, stateCache, reader, trip,
                 op, ret, outcome, snap, second, failures>>

\* A step 1 that writes no blob.
CommitWritesNothing ==
  /\ pc = "commit"
  /\ IF blocksBatch # Null
     THEN blocksBatch' = Some([Val(blocksBatch) EXCEPT !.written = TRUE])
     ELSE UNCHANGED blocksBatch
  /\ pc' = "commit_kv"
  /\ UNCHANGED <<db, blobs, tree, txn, state, treeState, pending,
                 pendingTreeState, current, cacheHash, cacheHeight, options, network,
                 stateCache, reader, trip, op, ret, outcome, snap, second,
                 failures>>

\* Step 1: blocksBatch.commitWrites().
CommitWrites ==
  /\ pc = "commit"
  /\ IF blocksBatch # Null
     THEN /\ blobs' = blob_write(blobs, Val(blocksBatch).writes,
                                 Len(Val(blocksBatch).writes))
          /\ blocksBatch' = Some([Val(blocksBatch) EXCEPT !.written = TRUE])
     ELSE UNCHANGED <<blobs, blocksBatch>>
  /\ pc' = "commit_kv"
  /\ UNCHANGED <<db, tree, txn, state, treeState, pending, pendingTreeState,
                 current, cacheHash, cacheHeight, options, network, stateCache, reader, trip, op, ret, outcome,
                 snap, second, failures>>

\* Step 1 fails after some of the writes.
CommitWritesFail ==
  /\ pc = "commit"
  /\ failures < MaxFailures
  /\ blocksBatch # Null
  /\ \E n \in 0..Len(Val(blocksBatch).writes) :
       blobs' = blob_write(blobs, Val(blocksBatch).writes, n)
  /\ CommitCatch
  /\ UNCHANGED <<db, tree, txn, state, treeState, options, network, stateCache, reader, trip, op, ret, snap>>

\* Step 2: current.write() reaches the store.
CommitKV ==
  /\ pc = "commit_kv"
  /\ db' = batch_write(db, Val(current))
  /\ pc' = "commit_swap"
  /\ UNCHANGED <<blobs, tree, txn, state, treeState, pending,
                 pendingTreeState, current, blocksBatch, cacheHash,
                 cacheHeight, options, network, stateCache, reader, trip, op, ret, outcome, snap, second,
                 failures>>

\* Step 2 fails: the batch is atomic, nothing is written.
CommitKVFail ==
  /\ pc = "commit_kv"
  /\ failures < MaxFailures
  /\ CommitCatch
  /\ UNCHANGED <<db, blobs, tree, txn, state, treeState, options, network, stateCache, reader, trip, op, ret,
                 snap>>

\* Steps 3 and 4, when current.write() has returned: the state swap.
CommitSwap ==
  /\ pc = "commit_swap"
  /\ state' = IF Val(pending).committed THEN Val(pending) ELSE state
  /\ treeState' = IF Val(pendingTreeState).committed
                  THEN Val(pendingTreeState) ELSE treeState
  /\ current' = Null
  /\ pending' = Null
  /\ pendingTreeState' = Null
  /\ pc' = "commit_promote"
  /\ second' = "none"
  /\ UNCHANGED <<db, blobs, tree, txn, blocksBatch, cacheHash, cacheHeight,
                 options, network, stateCache, reader, trip, op, ret, outcome, snap, failures>>

\* Step 5: the staged cache entries are promoted.
CommitPromote ==
  /\ pc = "commit_promote"
  /\ cacheHash' = LRU_commit(cacheHash)
  /\ cacheHeight' = LRU_commit(cacheHeight)
  /\ stateCache' = StateCache_commit(stateCache)
  /\ pc' = "commit_prunes"
  /\ UNCHANGED <<db, blobs, tree, txn, state, treeState, pending,
                 pendingTreeState, current, blocksBatch, options, network, reader, trip, op, ret,
                 outcome, snap, second, failures>>

\* Step 6: blocksBatch.commitPrunes(); commit() returns.
CommitPrunes ==
  /\ pc = "commit_prunes"
  /\ blobs' = IF blocksBatch # Null
              THEN blob_prune(blobs, Val(blocksBatch).prunes) ELSE blobs
  /\ pc' = ret
  /\ outcome' = IF ret = "idle" THEN "ok" ELSE outcome
  /\ snap' = Null
  /\ UNCHANGED <<db, tree, txn, state, treeState, pending, pendingTreeState,
                 current, blocksBatch, cacheHash, cacheHeight, options, network, stateCache, reader, trip, op,
                 ret, second, failures>>

\* Step 6 fails after some of the deletions: commitPrunes() is awaited
\* outside the try block of commit(), so the error leaves commit() and the
\* operation that called it; the blob batch stays in this.blocksBatch until
\* the next start() replaces it.
CommitPrunesFail ==
  /\ pc = "commit_prunes"
  /\ failures < MaxFailures
  /\ blocksBatch # Null
  /\ Len(Val(blocksBatch).prunes) > 0
  /\ failures' = failures + 1
  /\ \E n \in 0..(Len(Val(blocksBatch).prunes) - 1) :
       blobs' = blob_prune(blobs, SubSeq(Val(blocksBatch).prunes, 1, n))
  /\ pc' = Home
  /\ outcome' = "pruneFailed"
  /\ snap' = Null
  /\ UNCHANGED <<db, tree, txn, state, treeState, pending, pendingTreeState,
                 current, blocksBatch, cacheHash, cacheHeight, options, network,
                 stateCache, reader, trip, op, ret, second>>

(***************************************************************************)
(* compactTree(entry) and the replay of the names above the compacted      *)
(* root that the chain performs after it (Chain.syncTree).                 *)
(***************************************************************************)
\* The s record of compactTree with the compaction marked in it at once.
putTreeStateCompacted(t, entry) ==
  LET ts == TreeState_commit(
              TreeState_compact(Val(t.pendingTreeState), entry.treeRoot,
                                entry.height),
              entry.treeRoot, entry.height - 1)
  IN put([t EXCEPT !.pendingTreeState = Some(ts)], layout_s,
         TreeState_encode(ts))

\* The s record of compactTree: pendingTreeState.commit(root, height - 1).
putTreeState(t, entry) ==
  LET ts == TreeState_commit(Val(t.pendingTreeState), entry.treeRoot,
                             entry.height - 1)
  IN put([t EXCEPT !.pendingTreeState = Some(ts)], layout_s,
         TreeState_encode(ts))

\* compactTree(entry) up to its first commit(): the target root is saved.
\* The chain compacts the tree of a full node only.  The call is observed:
\* the state before it is kept.
CompactTree ==
  \E b \in Hashes \ {GenesisHash} :
    /\ pc = "idle"
    /\ ~options.spv
    /\ db_get(db, layout_H(HeightOf(b))) = Some(b)
    /\ LET t == start(This)
       IN /\ ~t.thrown
          /\ Assign(putTreeState(t, EntryOf(b)))
    /\ op' = [NoOp EXCEPT !.name = "compactTree", !.hash = b]
    /\ ret' = "compact_inject"
    /\ pc' = "commit"
    /\ outcome' = "running"
    /\ snap' = Some(Snapshot)
    /\ trip' = Trip(b, Null, <<"compactTree">>)
    /\ UNCHANGED <<Others, second, failures>>

\* compactTree: tree.inject(entry.treeRoot) rewinds the tree.
CompactInject ==
  /\ pc = "compact_inject"
  /\ IF tree_canInject(tree, EntryOf(op.hash).treeRoot)
     THEN /\ tree' = tree_inject(tree, EntryOf(op.hash).treeRoot)
          /\ pc' = "compact_compact"
          /\ UNCHANGED outcome
     ELSE /\ pc' = "idle"
          /\ outcome' = "threw"
          /\ UNCHANGED tree
  /\ UNCHANGED <<db, blobs, txn, state, treeState, pending, pendingTreeState,
                 current, blocksBatch, cacheHash, cacheHeight, options, network,
                 stateCache, reader, trip, op, ret, snap, second, failures>>

\* compactTree: the I/O of inject or compact throws; nothing catches it.
CompactThrows ==
  /\ pc \in {"compact_inject", "compact_compact"}
  /\ failures < MaxFailures
  /\ failures' = failures + 1
  /\ pc' = "idle"
  /\ outcome' = "threw"
  /\ UNCHANGED <<db, blobs, tree, txn, state, treeState, pending,
                 pendingTreeState, current, blocksBatch, cacheHash,
                 cacheHeight, options, network, stateCache, reader, trip, op, ret, snap, second>>

\* compactTree: tree.compact() returns, the txn is rebuilt and the second
\* batch marks the compaction complete.
CompactCompact ==
  /\ pc = "compact_compact"
  /\ LET tr == tree_compact(tree)
         t0 == [This EXCEPT !.tree = tr, !.txn = tree_txn(tr)]
         t == start(t0)
         e == EntryOf(op.hash)
         t1 == [t EXCEPT !.pendingTreeState =
                  Some(TreeState_compact(Val(@), e.treeRoot, e.height))]
     IN IF t.thrown
        THEN /\ Assign(t)
             /\ pc' = "idle"
             /\ outcome' = "threw"
             /\ UNCHANGED <<ret, snap>>
        ELSE /\ Assign(putTreeState(t1, e))
             /\ pc' = "commit"
             /\ ret' = "sync"
             /\ snap' = Some(Snapshot)
             /\ UNCHANGED outcome
  /\ UNCHANGED <<Others, op, second, failures, trip>>

\* Chain.syncTree: saveNames(view, entry, false) for every main-chain block
\* above the committed root, in height order.
Sync ==
  /\ pc = "sync"
  /\ LET h == IF op.name \in {"compactTree", "open"}
              THEN treeState.commitHeight + 1
              ELSE HeightOf(op.hash) + 1
         next == db_get(db, layout_H(h))
     IN IF h > TipHeight \/ next = Null
        THEN /\ pc' = "idle"
             /\ outcome' = "ok"
             /\ UNCHANGED <<Others, tree, txn, pending, pendingTreeState,
                            current, blocksBatch, cacheHash, cacheHeight,
                            stateCache, op,
                            ret, snap, second, failures, trip>>
        ELSE Begin("sync", This,
                   [NoOp EXCEPT !.name = "saveNames", !.hash = Val(next),
                                !.view = Some(ConnectView(Val(next)))],
                   "sync")

(***************************************************************************)
(* prune(), lookup() and prove().                                          *)
(***************************************************************************)
\* getHeight(hash): the hash cache, else the h record, else -1.
getHeight(t, hash) ==
  IF hash = ZERO_HASH THEN [t |-> t, height |-> -1]
  ELSE IF LRU_has(t.cacheHash, hash)
    THEN [t |-> [t EXCEPT !.cacheHash = LRU_touch(@, hash)],
          height |-> EntryOf(LRU_valueAt(t.cacheHash, hash)).height]
  ELSE LET raw == db_get(db, layout_h(hash))
       IN [t |-> t, height |-> IF raw = Null THEN -1 ELSE Val(raw)]

\* The loop of prune() over the heights i..end: the blobs of the main-chain
\* hash of every height are queued in the blob batch of prune().
RECURSIVE pruneLoop(_, _, _)
pruneLoop(r, i, end) ==
  IF i > end \/ r.thrown THEN r
  ELSE LET g == getHash(r.t, i)
       IN IF g.hash = Null THEN [r EXCEPT !.t = g.t, !.thrown = TRUE]
          ELSE pruneLoop([r EXCEPT !.t = g.t,
                                   !.prunes = @ \o <<blob_block(Val(g.hash)),
                                                     blob_undo(Val(g.hash))>>],
                         i + 1, end)

\* prune() that returns false only below the first height it may prune.
pruneRangeFrom == PruneAfterHeight + KeepBlocks - 1
\* prune() returns false up to the height pruneAfter + keepBlocks.
pruneRange == PruneAfterHeight + KeepBlocks

\* prune() up to the commit of its blob batch: the checks and the loop.
Prune ==
  /\ pc = "idle"
  /\ LET flags == db_get(db, layout_O)
         g == getHeight(This, state.tip)
         start_ == PruneAfterHeight + 1
         end == g.height - KeepBlocks
         r == pruneLoop([t |-> g.t, prunes |-> <<>>, thrown |-> FALSE],
                        start_, end)
     IN IF options.spv \/ Val(flags).prune THEN ThrowAs(This, "prune")
        ELSE IF g.height <= pruneRange
          THEN /\ Assign(g.t)
               /\ pc' = "idle"
               /\ outcome' = "false"
               /\ op' = [NoOp EXCEPT !.name = "prune"]
               /\ trip' = Null
               /\ UNCHANGED <<Others, ret, snap, second, failures>>
        ELSE IF r.thrown THEN ThrowAs(r.t, "prune")
        ELSE /\ Assign(r.t)
             /\ pc' = "prune_blobs"
             /\ outcome' = "running"
             /\ op' = [NoOp EXCEPT !.name = "prune", !.hash = state.tip,
                                   !.view = Some(r.prunes)]
             /\ snap' = Some(Snapshot)
             /\ trip' = Null
             /\ UNCHANGED <<Others, ret, second, failures>>

\* prune() that goes on to the flag write without committing its blob
\* batch.
PruneBlobsDeferred ==
  /\ pc = "prune_blobs"
  /\ pc' = "prune_flag"
  /\ UNCHANGED <<db, blobs, tree, txn, state, treeState, pending,
                 pendingTreeState, current, blocksBatch, cacheHash,
                 cacheHeight, options, network, stateCache, reader, trip, op, ret,
                 outcome, snap, second, failures>>

\* prune(): blocksBatch.commit() deletes the queued blobs; deleting a blob
\* that is not there does nothing.
PruneBlobs ==
  /\ pc = "prune_blobs"
  /\ blobs' = blob_prune(blobs, Val(op.view))
  /\ pc' = "prune_flag"
  /\ UNCHANGED <<db, tree, txn, state, treeState, pending, pendingTreeState,
                 current, blocksBatch, cacheHash, cacheHeight, options, network,
                 stateCache, reader, trip, op, ret, outcome, snap, second,
                 failures>>

\* prune(): the commit of the blob batch throws after some deletions.
PruneBlobsFail ==
  /\ pc = "prune_blobs"
  /\ failures < MaxFailures
  /\ failures' = failures + 1
  /\ \E n \in 0..(Len(Val(op.view)) - 1) :
       blobs' = blob_prune(blobs, SubSeq(Val(op.view), 1, n))
  /\ pc' = "idle"
  /\ outcome' = "threw"
  /\ UNCHANGED <<db, tree, txn, state, treeState, pending, pendingTreeState,
                 current, blocksBatch, cacheHash, cacheHeight, options, network,
                 stateCache, reader, trip, op, ret, snap, second>>

\* prune() that sets options.prune and returns true without putting the
\* flags.
PruneFlagMemoryOnly ==
  /\ pc = "prune_flag"
  /\ options' = [options EXCEPT !.prune = TRUE]
  /\ pc' = "idle"
  /\ outcome' = "ok"
  /\ UNCHANGED <<db, blobs, tree, txn, state, treeState, pending,
                 pendingTreeState, current, blocksBatch, cacheHash,
                 cacheHeight, stateCache, network, reader, trip, op, ret, snap,
                 second, failures>>

\* prune(): options.prune is set and the flags are put to O; prune()
\* returns true.
PruneFlag ==
  /\ pc = "prune_flag"
  /\ options' = [options EXCEPT !.prune = TRUE]
  /\ db' = db_put(db, layout_O, options')
  /\ pc' = "idle"
  /\ outcome' = "ok"
  /\ UNCHANGED <<blobs, tree, txn, state, treeState, pending,
                 pendingTreeState, current, blocksBatch, cacheHash,
                 cacheHeight, stateCache, network, reader, trip, op, ret, snap,
                 second, failures>>

\* prune(): db.put of the flags throws; the catch block resets
\* options.prune and rethrows.
PruneFlagFail ==
  /\ pc = "prune_flag"
  /\ failures < MaxFailures
  /\ failures' = failures + 1
  /\ options' = [options EXCEPT !.prune = FALSE]
  /\ pc' = "idle"
  /\ outcome' = "threw"
  /\ UNCHANGED <<db, blobs, tree, txn, state, treeState, pending,
                 pendingTreeState, current, blocksBatch, cacheHash,
                 cacheHeight, stateCache, network, reader, trip, op, ret, snap, second>>

\* The process stops between the blob commit and the flag write of
\* prune() and the node is started again with the same options: open() of
\* an existing database loads the state, the state cache and the tree
\* state and injects the committed root; the chain then replays the names
\* above it.
PruneCrash ==
  /\ pc = "prune_flag"
  /\ failures < MaxFailures
  /\ failures' = failures + 1
  /\ state' = ChainState_decode(Val(db_get(db, layout_R)))
  /\ stateCache' = [bits |-> {<<k[2], k[3]>> :
                                k \in {x \in DOMAIN db : x[1] = "v"}},
                    updates |-> <<>>]
  /\ treeState' = TreeState_decode(Val(db_get(db, layout_s)))
  /\ IF tree_canInject(tree, treeState'.treeRoot)
     THEN /\ tree' = tree_inject(tree, treeState'.treeRoot)
          /\ txn' = tree_txn(tree')
          /\ pc' = "sync"
     ELSE /\ pc' = "closed"
          /\ UNCHANGED <<tree, txn>>
  /\ cacheHash' = NewLRU
  /\ cacheHeight' = NewLRU
  /\ pending' = Null
  /\ pendingTreeState' = Null
  /\ current' = Null
  /\ blocksBatch' = Null
  /\ op' = [NoOp EXCEPT !.name = "open"]
  /\ ret' = "idle"
  /\ outcome' = "running"
  /\ snap' = Null
  /\ second' = "none"
  /\ UNCHANGED <<db, blobs, options, network, reader, trip>>

\* lookup(root, key) that reads the tree in either mode.
LookupAnyMode ==
  /\ pc = "idle"
  /\ outcome' = "ok"
  /\ op' = [NoOp EXCEPT !.name = "lookup"]
  /\ UNCHANGED <<Others, tree, txn, pending, pendingTreeState, current,
                 blocksBatch, cacheHash, cacheHeight, stateCache, pc, ret,
                 snap, second, failures, trip>>

\* lookup(root, key) and prove(root, key): refused in SPV mode, else a
\* snapshot of the tree is read.
Lookup ==
  /\ pc = "idle"
  /\ IF options.spv THEN ThrowAs(This, "lookup")
     ELSE /\ outcome' = "ok"
          /\ op' = [NoOp EXCEPT !.name = "lookup"]
          /\ UNCHANGED <<Others, tree, txn, pending, pendingTreeState,
                         current, blocksBatch, cacheHash, cacheHeight,
                         stateCache, pc, ret, snap, second, failures,
                         trip>>
Prove ==
  /\ pc = "idle"
  /\ IF options.spv THEN ThrowAs(This, "prove")
     ELSE /\ outcome' = "ok"
          /\ op' = [NoOp EXCEPT !.name = "prove"]
          /\ UNCHANGED <<Others, tree, txn, pending, pendingTreeState,
                         current, blocksBatch, cacheHash, cacheHeight,
                         stateCache, pc, ret, snap, second, failures,
                         trip>>

(***************************************************************************)
(* A second caller enters a mutator while the batch is active.             *)
(***************************************************************************)
SecondStart ==
  /\ current # Null
  /\ second = "none"
  /\ pc # "commit_promote"
  /\ LET t == start(This)
     IN /\ Assign(t)
        /\ second' = IF t.thrown THEN "assert" ELSE "started"
  /\ UNCHANGED <<Others, pc, op, ret, outcome, snap, failures, trip>>

(***************************************************************************)
(* A reader interleaved with the writer at its suspension points.          *)
(***************************************************************************)
\* open() has returned: the database serves readers.
Opened == pc # "new" /\ (op.name = "initialize" => pc = "idle")

\* The synchronous head of getEntryByHash(hash): the cache is consulted.
ReadHead(hash, isTip) ==
  /\ reader.pc # "get"
  /\ Opened
  /\ pc # "commit_promote"
  /\ IF LRU_has(cacheHash, hash)
     THEN /\ cacheHash' = LRU_touch(cacheHash, hash)
          /\ reader' = [pc |-> "done", hash |-> hash, tip |-> isTip,
                        result |-> Some(EntryOf(LRU_valueAt(cacheHash, hash)))]
     ELSE /\ reader' = [pc |-> "get", hash |-> hash, tip |-> isTip,
                        result |-> Null]
          /\ UNCHANGED cacheHash
  /\ UNCHANGED <<db, blobs, tree, txn, state, treeState, pending,
                 pendingTreeState, current, blocksBatch, cacheHeight,
                 stateCache, options, network, pc, op, ret, outcome, snap, second,
                 failures, trip>>

\* getEntryByHash(hash) of some block.
GetEntryByHash ==
  \E hash \in Hashes : ReadHead(hash, FALSE)

\* getTip(): getEntryByHash(this.state.tip).
GetTip ==
  ReadHead(state.tip, TRUE)

\* db.get(e(hash)) returns: null, or the entry, which is cached.
GetEntryReturns ==
  /\ reader.pc = "get"
  /\ pc # "commit_promote"
  /\ LET raw == db_get(db, layout_e(reader.hash))
     IN /\ reader' = [reader EXCEPT !.pc = "done", !.result = raw]
        /\ cacheHash' = IF raw = Null THEN cacheHash
                        ELSE LRU_set(cacheHash, Val(raw).hash, Val(raw).hash)
  /\ UNCHANGED <<db, blobs, tree, txn, state, treeState, pending,
                 pendingTreeState, current, blocksBatch, cacheHeight,
                 stateCache, options, network, pc, op, ret, outcome, snap, second,
                 failures, trip>>

Next ==
  \/ Open
  \/ OpenDone
  \/ Save
  \/ SaveAlternate
  \/ Reconnect
  \/ Disconnect
  \/ Reset
  \/ ResetTip
  \/ ResetNext
  \/ CompactTree
  \/ CompactInject
  \/ CompactThrows
  \/ CompactCompact
  \/ Sync
  \/ Body
  \/ BodyThrowsEarly
  \/ BodyThrowsTree
  \/ CommitWrites
  \/ CommitWritesFail
  \/ CommitKV
  \/ CommitKVFail
  \/ CommitSwap
  \/ CommitPromote
  \/ CommitPrunes
  \/ SecondStart

Spec == Init /\ [][Next]_vars

\* The writer without injected errors, interleaved with a reader.
NextRead ==
  \/ Open
  \/ OpenDone
  \/ Save
  \/ Disconnect
  \/ Reset
  \/ ResetTip
  \/ ResetNext
  \/ Body
  \/ CommitWrites
  \/ CommitKV
  \/ CommitSwap
  \/ CommitPromote
  \/ CommitPrunes
  \/ GetEntryByHash
  \/ GetTip
  \/ GetEntryReturns

\* The node in either mode, with prune(), lookup() and prove(), the stop
\* of the process inside prune() and no other I/O error.
InitModes ==
  /\ db = EmptyStore
  /\ blobs = EmptyStore
  /\ tree = NewTree
  /\ txn = tree_txn(NewTree)
  /\ state = ChainState
  /\ treeState = TreeState
  /\ pending = Null
  /\ pendingTreeState = Null
  /\ current = Null
  /\ blocksBatch = Null
  /\ cacheHash = NewLRU
  /\ cacheHeight = NewLRU
  /\ stateCache = NewStateCache
  /\ options \in [spv : BOOLEAN, prune : {FALSE}]
  /\ network = MainDeploys
  /\ pc = "new"
  /\ op = NoOp
  /\ ret = "idle"
  /\ outcome = "none"
  /\ snap = Null
  /\ second = "none"
  /\ reader = NoRead
  /\ failures = 0
  /\ trip = Null

NextPrune ==
  \/ Open
  \/ OpenDone
  \/ Save
  \/ Disconnect
  \/ Reset
  \/ ResetTip
  \/ ResetNext
  \/ Prune
  \/ PruneBlobs
  \/ PruneBlobsFail
  \/ PruneFlag
  \/ PruneFlagFail
  \/ PruneCrash
  \/ CompactTree
  \/ CompactInject
  \/ CompactCompact
  \/ Sync
  \/ Lookup
  \/ Prove
  \/ Body
  \/ CommitWrites
  \/ CommitKV
  \/ CommitSwap
  \/ CommitPromote
  \/ CommitPrunes

SpecPrune == InitModes /\ [][NextPrune]_vars

\* The writer of a full node that connects, disconnects, reorganizes and
\* resets, with I/O errors, without compaction and without pruning.
NextChain ==
  \/ Open
  \/ OpenDone
  \/ Save
  \/ SaveAlternate
  \/ Reconnect
  \/ Disconnect
  \/ Reset
  \/ ResetTip
  \/ ResetNext
  \/ Body
  \/ BodyThrowsEarly
  \/ BodyThrowsTree
  \/ CommitWrites
  \/ CommitWritesFail
  \/ CommitKV
  \/ CommitKVFail
  \/ CommitSwap
  \/ CommitPromote
  \/ CommitPrunes

SpecChain == Init /\ [][NextChain]_vars

\* The writer of a full node that connects, disconnects and reconnects
\* blocks, with I/O errors of the blob prunes of commit().
NextCommit ==
  \/ Open
  \/ OpenDone
  \/ Save
  \/ SaveAlternate
  \/ Reconnect
  \/ Disconnect
  \/ Body
  \/ CommitWrites
  \/ CommitKV
  \/ CommitSwap
  \/ CommitPromote
  \/ CommitPrunes
  \/ CommitPrunesFail

SpecCommit == Init /\ [][NextCommit]_vars

\* The writer of a full node that never prunes, with I/O errors in the
\* bodies and in every step of commit().
NextBlob ==
  \/ NextChain
  \/ CommitPrunesFail

SpecBlob == Init /\ [][NextBlob]_vars

\* The blob store is damaged while the writer is idle: the undo blob of
\* the tip is lost, or it holds one coin more than the block spent.
UndoDamaged ==
  /\ pc = "idle"
  /\ failures < MaxFailures
  /\ state.tip # GenesisHash
  /\ failures' = failures + 1
  /\ \/ /\ db_has(blobs, blob_undo(state.tip))
        /\ blobs' = db_del(blobs, blob_undo(state.tip))
     \/ blobs' = db_put(blobs, blob_undo(state.tip),
                        Append(getUndoCoins(state.tip),
                               Output(1, types.NONE, 0)))
  /\ UNCHANGED <<db, tree, txn, state, treeState, pending, pendingTreeState,
                 current, blocksBatch, cacheHash, cacheHeight, options, network,
                 stateCache, reader, trip, pc, op, ret, outcome, snap,
                 second>>

\* The writer of a full node whose blob store may be damaged.
NextUndo ==
  \/ Open
  \/ OpenDone
  \/ Save
  \/ Reconnect
  \/ Disconnect
  \/ UndoDamaged
  \/ Body
  \/ CommitWrites
  \/ CommitKV
  \/ CommitSwap
  \/ CommitPromote
  \/ CommitPrunes

SpecUndo == Init /\ [][NextUndo]_vars

\* The process of a full node stops at any point of the writer and the
\* node is started again on the same database: what is in memory is lost,
\* the key-value store, the blobs and the nodes written to the tree stay.
\* open() of an existing database loads the state, the state cache and the
\* tree state, injects the persisted root (when `injects`) and creates the
\* txn; it throws when the tree does not have the root.
Restart(injects) ==
  /\ pc \notin {"new", "closed"}
  /\ db_has(db, layout_V)
  /\ ~options.spv
  /\ failures < MaxFailures
  /\ failures' = failures + 1
  /\ state' = ChainState_decode(Val(db_get(db, layout_R)))
  /\ stateCache' = [bits |-> {<<k[2], k[3]>> :
                                k \in {x \in DOMAIN db : x[1] = "v"}},
                    updates |-> <<>>]
  /\ treeState' = TreeState_decode(Val(db_get(db, layout_s)))
  /\ IF ~injects
     THEN /\ txn' = tree_txn(tree)
          /\ pc' = "sync"
          /\ UNCHANGED tree
     ELSE IF tree_canInject(tree, treeState'.treeRoot)
     THEN /\ tree' = tree_inject(tree, treeState'.treeRoot)
          /\ txn' = tree_txn(tree')
          /\ pc' = "sync"
     ELSE /\ pc' = "closed"
          /\ UNCHANGED <<tree, txn>>
  /\ cacheHash' = NewLRU
  /\ cacheHeight' = NewLRU
  /\ pending' = Null
  /\ pendingTreeState' = Null
  /\ current' = Null
  /\ blocksBatch' = Null
  /\ op' = [NoOp EXCEPT !.name = "open"]
  /\ ret' = "idle"
  /\ outcome' = "running"
  /\ snap' = Null
  /\ second' = "none"
  /\ trip' = Trip(state.tip, Null, <<"open">>)
  /\ UNCHANGED <<db, blobs, options, network, reader>>

\* open() of an existing database that does not inject the persisted root.
ReopenNoInject == Restart(FALSE)

\* The stop of the process and open() of the existing database.
Reopen == Restart(TRUE)

\* The writer of a full node that connects and disconnects blocks and
\* compacts the tree, stopped at any point and started again.
NextReopen ==
  \/ Open
  \/ OpenDone
  \/ Save
  \/ Disconnect
  \/ Reconnect
  \/ CompactTree
  \/ CompactInject
  \/ CompactCompact
  \/ Sync
  \/ Body
  \/ CommitWrites
  \/ CommitKV
  \/ CommitSwap
  \/ CommitPromote
  \/ CommitPrunes
  \/ Reopen

SpecReopen == Init /\ [][NextReopen]_vars

\* close(): the tree is closed, which leaves it at the empty root with its
\* nodes on disk, and the txn is rebuilt; the database is closed.
Close ==
  /\ pc = "idle"
  /\ current = Null
  /\ ~options.spv
  /\ tree' = tree_inject(tree, EmptyNames)
  /\ txn' = tree_txn(tree')
  /\ pc' = "shut"
  /\ op' = [NoOp EXCEPT !.name = "close"]
  /\ outcome' = "ok"
  /\ UNCHANGED <<db, blobs, state, treeState, pending, pendingTreeState,
                 current, blocksBatch, cacheHash, cacheHeight, stateCache,
                 options, network, ret, snap, second, reader, failures, trip>>

\* verifyDeployments(): when checkDeployments() names a bit, the v records
\* of every such bit are deleted (invalidateCache) and the table of the
\* network is written, in one batch; otherwise nothing is written.
verifyDeployments(d, net) ==
  LET invalid == checkDeployments(Val(db_get(d, layout_D)), net)
      kept == {k \in DOMAIN d : ~(k[1] = "v" /\ k[2] \in invalid)}
  IN IF invalid = {} THEN d
     ELSE db_put([k \in kept |-> d[k]], layout_D, writeDeployments(net))

\* The node was closed and is started again, built with another deployment
\* table: open() of the existing database verifies the deployments, loads
\* the state, the state cache and the tree state, injects the persisted
\* root and creates the txn.
Upgrade ==
  \E table \in DeployTables :
    /\ pc = "shut"
    /\ network' = table
    /\ db' = verifyDeployments(db, table)
    /\ state' = ChainState_decode(Val(db_get(db', layout_R)))
    /\ stateCache' = [bits |-> {<<k[2], k[3]>> :
                                  k \in {x \in DOMAIN db' : x[1] = "v"}},
                      updates |-> <<>>]
    /\ treeState' = TreeState_decode(Val(db_get(db', layout_s)))
    /\ IF tree_canInject(tree, treeState'.treeRoot)
       THEN /\ tree' = tree_inject(tree, treeState'.treeRoot)
            /\ txn' = tree_txn(tree')
            /\ pc' = "sync"
       ELSE /\ pc' = "closed"
            /\ UNCHANGED <<tree, txn>>
    /\ cacheHash' = NewLRU
    /\ cacheHeight' = NewLRU
    /\ op' = [NoOp EXCEPT !.name = "open"]
    /\ ret' = "idle"
    /\ outcome' = "running"
    /\ snap' = Null
    /\ UNCHANGED <<blobs, pending, pendingTreeState, current, blocksBatch,
                   options, second, reader, failures, trip>>

\* The writer of a full node that is closed and started again with other
\* deployment tables.
NextDeploy ==
  \/ Open
  \/ OpenDone
  \/ Save
  \/ Sync
  \/ Body
  \/ CommitWrites
  \/ CommitKV
  \/ CommitSwap
  \/ CommitPromote
  \/ CommitPrunes
  \/ Close
  \/ Upgrade

SpecDeploy == Init /\ [][NextDeploy]_vars

\* The writer of a full node with compaction, close() and open() of the
\* existing database.
NextTxn ==
  \/ NextReopen
  \/ Close

SpecTxn == Init /\ [][NextTxn]_vars

\* The writer of a full node with I/O errors, in which a save followed by
\* a disconnect and a disconnect followed by a reconnect are observed.
NextTrip ==
  \/ Open
  \/ OpenDone
  \/ Save
  \/ SaveAlternate
  \/ Reconnect
  \/ Disconnect
  \/ TripSave
  \/ TripDisconnect
  \/ TripDisconnectFirst
  \/ TripReconnect
  \/ Body
  \/ BodyThrowsEarly
  \/ BodyThrowsTree
  \/ CommitWrites
  \/ CommitWritesFail
  \/ CommitKV
  \/ CommitKVFail
  \/ CommitSwap
  \/ CommitPromote
  \/ CommitPrunes

SpecTrip == Init /\ [][NextTrip]_vars

SpecRead == Init /\ [][NextRead]_vars

(***************************************************************************)
(* getEntryByHeight(height) of a reader interleaved with the writer.  A    *)
(* read of the store takes its value when the store serves it and hands    *)
(* it to the reader when the reader is resumed.  `moved` tells that        *)
(* this.state was replaced since the read began, `swapped` that it was     *)
(* replaced since the reader took `const state = this.state`.              *)
(***************************************************************************)
HeightRead(at, height, hash, result, moved, swapped) ==
  [pc |-> at, hash |-> hash, tip |-> FALSE, result |-> result,
   height |-> height, moved |-> moved, swapped |-> swapped]

\* A getEntryByHeight is suspended on a read of the store.
ReadingHeight == reader.pc \in {"readH", "gotH", "readE", "gotE"}

\* The synchronous head of getEntryByHeight(height): the height cache is
\* consulted, else H(height) is requested.
GetEntryByHeight ==
  \E height \in 0..MaxHeight :
    /\ ~ReadingHeight
    /\ reader.pc # "get"
    /\ Opened
    /\ pc # "commit_promote"
    /\ IF LRU_has(cacheHeight, height)
       THEN /\ cacheHeight' = LRU_touch(cacheHeight, height)
            /\ reader' = HeightRead("done", height, ZERO_HASH,
                 Some(EntryOf(LRU_valueAt(cacheHeight, height))),
                 FALSE, FALSE)
       ELSE /\ reader' = HeightRead("readH", height, ZERO_HASH, Null,
                                    FALSE, FALSE)
            /\ UNCHANGED cacheHeight
    /\ UNCHANGED <<db, blobs, tree, txn, state, treeState, pending,
                   pendingTreeState, current, blocksBatch, cacheHash,
                   stateCache, options, network, pc, op, ret, outcome, snap, second,
                   failures, trip>>

\* The store serves db.get(H(height)) or db.get(e(hash)).
StoreServes ==
  /\ reader.pc \in {"readH", "readE"}
  /\ reader' = IF reader.pc = "readH"
               THEN [reader EXCEPT !.pc = "gotH",
                       !.result = db_get(db, layout_H(reader.height))]
               ELSE [reader EXCEPT !.pc = "gotE",
                       !.result = db_get(db, layout_e(reader.hash))]
  /\ UNCHANGED <<db, blobs, tree, txn, state, treeState, pending,
                 pendingTreeState, current, blocksBatch, cacheHash,
                 cacheHeight, stateCache, options, network, pc, op, ret, outcome,
                 snap, second, failures, trip>>

\* getEntryByHeight resumes with the hash: null is returned, or this.state
\* is taken and getEntryByHash(hash) consults the hash cache; on a hit the
\* entry goes to the height cache at once, else e(hash) is requested.
GetHashReturns ==
  /\ reader.pc = "gotH"
  /\ pc # "commit_promote"
  /\ IF reader.result = Null
     THEN /\ reader' = [reader EXCEPT !.pc = "done"]
          /\ UNCHANGED <<cacheHash, cacheHeight>>
     ELSE IF LRU_has(cacheHash, Val(reader.result))
     THEN /\ cacheHash' = LRU_touch(cacheHash, Val(reader.result))
          /\ cacheHeight' =
               LRU_set(cacheHeight,
                       HeightOf(LRU_valueAt(cacheHash, Val(reader.result))),
                       LRU_valueAt(cacheHash, Val(reader.result)))
          /\ reader' = [reader EXCEPT !.pc = "done",
                          !.hash = Val(reader.result),
                          !.result = Some(EntryOf(Val(reader.result)))]
     ELSE /\ reader' = [reader EXCEPT !.pc = "readE",
                          !.hash = Val(reader.result), !.result = Null,
                          !.swapped = FALSE]
          /\ UNCHANGED <<cacheHash, cacheHeight>>
  /\ UNCHANGED <<db, blobs, tree, txn, state, treeState, pending,
                 pendingTreeState, current, blocksBatch, stateCache, options, network,
                 pc, op, ret, outcome, snap, second, failures, trip>>

\* getEntryByHash resumes with the e record, which it caches, and
\* getEntryByHeight puts the entry in the height cache if this.state is
\* the object it took.
GetHeightEntryReturns ==
  /\ reader.pc = "gotE"
  /\ pc # "commit_promote"
  /\ reader' = [reader EXCEPT !.pc = "done"]
  /\ IF reader.result = Null THEN UNCHANGED <<cacheHash, cacheHeight>>
     ELSE /\ cacheHash' = LRU_set(cacheHash, Val(reader.result).hash,
                                  Val(reader.result).hash)
          /\ cacheHeight' =
               IF reader.swapped THEN cacheHeight
               ELSE LRU_set(cacheHeight, Val(reader.result).height,
                            Val(reader.result).hash)
  /\ UNCHANGED <<db, blobs, tree, txn, state, treeState, pending,
                 pendingTreeState, current, blocksBatch, stateCache, options, network,
                 pc, op, ret, outcome, snap, second, failures, trip>>

\* Steps 3 and 4 of commit() as seen by a suspended getEntryByHeight:
\* this.state = this.pending makes this.state another object.
CommitSwapSeen ==
  /\ pc = "commit_swap"
  /\ state' = IF Val(pending).committed THEN Val(pending) ELSE state
  /\ treeState' = IF Val(pendingTreeState).committed
                  THEN Val(pendingTreeState) ELSE treeState
  /\ reader' = IF ReadingHeight /\ Val(pending).committed
               THEN [reader EXCEPT !.moved = TRUE, !.swapped = TRUE]
               ELSE reader
  /\ current' = Null
  /\ pending' = Null
  /\ pendingTreeState' = Null
  /\ pc' = "commit_promote"
  /\ second' = "none"
  /\ UNCHANGED <<db, blobs, tree, txn, blocksBatch, cacheHash, cacheHeight,
                 options, network, stateCache, trip, op, ret, outcome, snap, failures>>

\* The writer without I/O errors, interleaved with a reader by height.
NextHeight ==
  \/ Open
  \/ OpenDone
  \/ Save
  \/ Reconnect
  \/ Disconnect
  \/ Body
  \/ CommitWrites
  \/ CommitKV
  \/ CommitSwapSeen
  \/ CommitPromote
  \/ CommitPrunes
  \/ GetEntryByHeight
  \/ StoreServes
  \/ GetHashReturns
  \/ GetHeightEntryReturns

SpecHeight == Init /\ [][NextHeight]_vars

(***************************************************************************)
(* scan(start, filter, iter), run while no writer is active.  The scan     *)
(* holds the position of the caller; `reader` holds the entry at the head  *)
(* of its loop and the calls of iter made so far.                          *)
(***************************************************************************)
\* The filters handed to scan: the transaction hashes they match.
Filters == {{}, {1010, 1021}}

\* The transactions of a block for which tx.testAndMaybeUpdate(filter)
\* holds, in block order.
matched(txs, filter) ==
  LET test(tx) == tx.hash \in filter
  IN SelectSeq(txs, test)

\* getBlock(hash): null in SPV mode, else the block read from the store.
getBlock(hash) ==
  IF options.spv THEN Null ELSE db_get(blobs, blob_block(hash))

\* getNext(entry): the entry of getNextHash(entry.hash).
getNext(t, entry) ==
  LET hash == db_get(db, layout_n(entry.hash))
  IN IF hash = Null THEN [t |-> t, entry |-> Null]
     ELSE getEntryByHash(t, Val(hash))

\* The scan at position `at`, with entry `hash` and the calls of iter made.
Scanning(at, hash, calls) ==
  [pc |-> at, hash |-> hash, tip |-> FALSE, result |-> Some(calls)]

\* One call iter(entry, txs) and whether its promise has resolved.
IterCall(hash, txs) == [hash |-> hash, txs |-> txs, resolved |-> FALSE]

\* scan(start, filter, iter) up to its loop: getEntry(start) and the
\* isMainChain check.
Scan ==
  \E from \in Hashes, filter \in Filters :
    /\ pc = "idle"
    /\ LET enter(t, at, out) ==
             /\ Assign(t)
             /\ pc' = IF at = "scan" THEN "scan" ELSE "idle"
             /\ outcome' = out
             /\ op' = [NoOp EXCEPT !.name = "scan", !.hash = from,
                                   !.view = Some(filter)]
             /\ reader' = Scanning(at, from, <<>>)
             /\ trip' = Null
             /\ UNCHANGED <<db, blobs, state, treeState, options, network, ret, snap,
                            second, failures>>
           main(m) ==
             IF m.main THEN enter(m.t, "scan", "running")
             ELSE enter(m.t, "refused", "threw")
           found(e) ==
             IF e.entry = Null THEN enter(e.t, "done", "ok")
             ELSE main(isMainChain(e.t, Val(e.entry)))
       IN found(getEntryByHash(This, from))

\* The head of the loop of scan, up to the call of iter: getBlock, the
\* filter, iter(entry, txs).
ScanBlock ==
  /\ pc = "scan"
  /\ reader.pc = "scan"
  /\ LET call(block) ==
           IF block # Null
           THEN reader' = Scanning("iter", reader.hash,
                  Append(Val(reader.result),
                         IterCall(reader.hash,
                                  matched(block_txs(Val(block)),
                                          Val(op.view)))))
           ELSE reader' = Scanning("iter", reader.hash,
                  Append(Val(reader.result), IterCall(reader.hash, <<>>)))
         head(block) ==
           IF block = Null /\ ~options.spv /\ ~options.prune
           THEN /\ reader' = [reader EXCEPT !.pc = "threw"]
                /\ pc' = "idle"
                /\ outcome' = "threw"
           ELSE /\ call(block)
                /\ UNCHANGED <<pc, outcome>>
     IN head(getBlock(reader.hash))
  /\ UNCHANGED <<db, blobs, tree, txn, state, treeState, pending,
                 pendingTreeState, current, blocksBatch, cacheHash,
                 cacheHeight, stateCache, options, network, op, ret, snap, second,
                 failures, trip>>

\* The promise of iter has resolved and the reader has the calls made so
\* far, the last one resolved.
Resolved(calls) ==
  [i \in DOMAIN calls |->
     IF i = Len(calls) THEN [calls[i] EXCEPT !.resolved = TRUE] ELSE calls[i]]

\* The loop of scan that ends after its first call of iter.
ScanNextStops ==
  /\ pc = "scan"
  /\ reader.pc = "iter"
  /\ reader' = Scanning("done", reader.hash, Resolved(Val(reader.result)))
  /\ pc' = "idle"
  /\ outcome' = "ok"
  /\ UNCHANGED <<db, blobs, tree, txn, state, treeState, pending,
                 pendingTreeState, current, blocksBatch, cacheHash,
                 cacheHeight, stateCache, options, network, op, ret, snap, second,
                 failures, trip>>

\* The tail of the loop of scan: iter has resolved, entry = getNext(entry);
\* scan returns when there is no next entry.
ScanNext ==
  /\ pc = "scan"
  /\ reader.pc = "iter"
  /\ LET next(n) ==
           /\ Assign(n.t)
           /\ IF n.entry = Null
              THEN /\ reader' = Scanning("done", reader.hash,
                                         Resolved(Val(reader.result)))
                   /\ pc' = "idle"
                   /\ outcome' = "ok"
              ELSE /\ reader' = Scanning("scan", Val(n.entry).hash,
                                         Resolved(Val(reader.result)))
                   /\ UNCHANGED <<pc, outcome>>
     IN next(getNext(This, EntryOf(reader.hash)))
  /\ UNCHANGED <<db, blobs, state, treeState, options, network, op, ret, snap, second,
                 failures, trip>>

\* The node in either mode without a concurrent writer: blocks are
\* connected, disconnected and pruned, and the chain is scanned.
NextScan ==
  \/ Open
  \/ OpenDone
  \/ Save
  \/ Disconnect
  \/ Prune
  \/ PruneBlobs
  \/ PruneFlag
  \/ PruneFlagFail
  \/ Body
  \/ CommitWrites
  \/ CommitKV
  \/ CommitSwap
  \/ CommitPromote
  \/ CommitPrunes
  \/ Scan
  \/ ScanBlock
  \/ ScanNext

\* Each step of a scan is taken once its read has returned.
SpecScan ==
  /\ InitModes
  /\ [][NextScan]_vars
  /\ WF_vars(ScanBlock)
  /\ WF_vars(ScanNext)

(***************************************************************************)
(* Derived notions the properties use.                                     *)
(***************************************************************************)
\* getNameState(nameHash): the state the long-lived txn holds, or null (0).
getNameState(nameHash) == txn_get(txn, nameHash)

\* No batch is active, so that a later start() succeeds.
NoBatch ==
  /\ current = Null
  /\ pending = Null
  /\ pendingTreeState = Null
  /\ ~start(This).thrown

\* The last commit() of the writer has swapped the state, or the writer is
\* between two operations: what a committed operation leaves is visible.
Committed == current = Null /\ pc # "new" /\ state.tip # ZERO_HASH

\* The writes of the blob batch have reached the blob store.
BlobsWritten ==
  blocksBatch = Null \/
  \A i \in 1..Len(Val(blocksBatch).writes) :
    db_has(blobs, Val(blocksBatch).writes[i].key)

\* The hash reached by following the n records from hash b, at most k times.
RECURSIVE FollowNext(_, _)
FollowNext(b, k) ==
  IF k = 0 \/ ~db_has(db, layout_n(b)) THEN b
  ELSE FollowNext(Val(db_get(db, layout_n(b))), k - 1)

\* The entries of the main chain: those the height index names.
MainChain ==
  {b \in Hashes : db_get(db, layout_H(HeightOf(b))) = Some(b)}

\* The outpoints the blocks of the main chain spend and create.
MainInputs ==
  UNION {{block_inputs(b)[i] : i \in 1..Len(block_inputs(b))} :
           b \in MainChain}
MainOutputs == UNION {OutpointsOf(block_txs(b)) : b \in MainChain}
\* The outputs that are unspent on the main chain.
Unspent == MainOutputs \ MainInputs
\* A claim that is not the first of its name.
laterClaim(output) == isClaim(output) /\ output.u32 # 1
\* The sum of the values of a set of outpoints.
RECURSIVE SumValues(_)
SumValues(S) ==
  IF S = {} THEN 0
  ELSE LET o == CHOOSE x \in S : TRUE
       IN OutputAt(o).value + SumValues(S \ {o})
\* readUndo(hash) returns the undo coins of the block.
hasUndo(b) == db_has(blobs, blob_undo(b))
\* The block spends at least one input.
spendsInputs(b) == Len(block_inputs(b)) > 0

\* The persisted flags have prune set.
flagsPrune == db_has(db, layout_O) /\ Val(db_get(db, layout_O)).prune
\* The range prune() computes: start and end.
pruneStart == PruneAfterHeight + 1
pruneEnd == TipHeight - KeepBlocks
\* The main-chain block of height h has neither its block nor its undo
\* blob in the store b.
Pruned(b, h) ==
  \A x \in MainChain :
    HeightOf(x) = h => ~db_has(b, blob_block(x)) /\ ~db_has(b, blob_undo(x))
\* This step is a call of prune() that passes the mode and flag checks.
PruneCalled ==
  /\ pc = "idle"
  /\ op'.name = "prune"
  /\ pc' \in {"idle", "prune_blobs"}
  /\ ~options.spv
  /\ ~flagsPrune
\* This step is a call of `name` that throws.
Threw(name) == pc = "idle" /\ op'.name = name /\ outcome' = "threw"

(***************************************************************************)
(* Properties.                                                             *)
(***************************************************************************)
\* C1: in every commit() the steps happen in this order, each completing
\* before the next starts: the blob writes, the key-value batch write, the
\* swap of state and treeState, the promotion of the staged cache entries
\* and the state cache updates, the blob prunes.  A blob appears only in
\* step 1, before any key-value record has changed; the key-value records
\* change only when the blob writes are in the store; state and treeState
\* change only when the store holds the batch and nothing has been promoted;
\* the staged entries are promoted only when the batch has been swapped
\* away; a blob disappears only after the promotion.
C1_CommitOrder ==
  [][/\ (DOMAIN blobs' \ DOMAIN blobs # {}) =>
          (pc = "commit" /\ db = Val(snap).db /\ UNCHANGED <<db, state>>)
     /\ (db' # db) =>
          (/\ pc = "commit_kv"
           /\ BlobsWritten
           /\ db' = batch_write(db, Val(current))
           /\ UNCHANGED <<state, treeState, current, pending>>)
     /\ (state' # state \/ treeState' # treeState) =>
          (/\ db = batch_write(Val(snap).db, Val(current))
           /\ BlobsWritten
           /\ cacheHash.pending # Null
           /\ cacheHeight.pending # Null
           /\ UNCHANGED <<cacheHash, cacheHeight, stateCache, blobs>>)
     /\ (pc = "commit_promote" /\ pc' # pc) =>
          (/\ NoBatch
           /\ cacheHash' = LRU_commit(cacheHash)
           /\ cacheHeight' = LRU_commit(cacheHeight)
           /\ stateCache'.updates = <<>>
           /\ UNCHANGED blobs)
     /\ (DOMAIN blobs \ DOMAIN blobs' # {}) =>
          (/\ NoBatch
           /\ cacheHash.pending = Null
           /\ cacheHeight.pending = Null
           /\ stateCache.updates = <<>>)]_vars

\* A commit that has swapped the state and promoted a staged entry is about
\* to prune a blob that is in the store.
C1_Witness ==
  /\ pc = "commit_prunes"
  /\ state # Val(snap).state
  /\ \E i \in 1..Len(Val(blocksBatch).prunes) :
       db_has(blobs, Val(blocksBatch).prunes[i])

\* C2: when the blob write or the key-value write of commit() fails,
\* state and treeState have the values they had before start(), no
\* key-value record has changed and no batch is active.
C2_FailedCommitLeavesState ==
  outcome = "commitFailed" =>
    /\ state = Val(snap).state
    /\ treeState = Val(snap).treeState
    /\ db = Val(snap).db
    /\ NoBatch

\* The commit of a save failed after its blob had been written.
C2_Witness ==
  /\ outcome = "commitFailed"
  /\ op.name = "save"
  /\ blobs # Val(snap).blobs

\* C3: when the body of save, reconnect, disconnect, saveNames or
\* removeChains throws, the batch is dropped: state, treeState, every
\* key-value record and every blob are what they were before the operation
\* and no batch is active.
C3_DropLeavesState ==
  (outcome = "dropped" /\
   op.name \in {"save", "reconnect", "disconnect", "saveNames",
                "removeChains"}) =>
    /\ state = Val(snap).state
    /\ treeState = Val(snap).treeState
    /\ db = Val(snap).db
    /\ blobs = Val(snap).blobs
    /\ NoBatch

\* The tree commit of a connecting save threw and the batch was dropped.
C3_Witness ==
  /\ outcome = "dropped"
  /\ op.name = "save"
  /\ op.view # Null
  /\ txn # Val(snap).txn

\* C4: after an operation that applies name states is aborted, by drop()
\* or by a failed commit(), getNameState returns for every name hash what
\* it returned before the operation and the tree has the root it had.
C4_AbortRestoresNames ==
  (outcome \in {"dropped", "commitFailed"} /\
   op.name \in {"save", "reconnect", "disconnect", "saveNames"}) =>
    /\ \A n \in NameHashes : getNameState(n) = txn_get(Val(snap).txn, n)
    /\ tree_rootHash(tree) = Val(snap).root

\* C5: getTip() interleaved with a writer returns the entry of the tip it
\* read, never null.
C5_GetTipNeverNull ==
  (reader.pc = "done" /\ reader.tip) =>
    reader.result = Some(EntryOf(reader.hash))

\* C6: start() called while a batch is active fails by assertion and
\* alters neither the active batch, nor its pending state, nor a staged
\* cache.
C6_SecondStartAsserts ==
  [][(second = "none" /\ second' # "none") =>
       (/\ second' = "assert"
        /\ UNCHANGED <<current, pending, pendingTreeState, blocksBatch,
                       cacheHash, cacheHeight, stateCache, db, blobs, state,
                       treeState>>)]_vars

\* A second caller was refused while the batch held operations.
C6_Witness ==
  /\ second = "assert"
  /\ current # Null
  /\ Len(Val(current)) > 0
  /\ cacheHash.pending # Null

\* C7: after every committed operation H(h) exists for every height h up
\* to the height of the tip and names a hash whose e record has height h,
\* and no H(h) exists above the tip.
C7_HeightIndex ==
  Committed =>
    \A h \in Heights :
      IF h <= Val(db_get(db, layout_e(state.tip))).height
      THEN /\ db_has(db, layout_H(h))
           /\ db_has(db, layout_e(Val(db_get(db, layout_H(h)))))
           /\ Val(db_get(db, layout_e(Val(db_get(db, layout_H(h)))))).height
                = h
      ELSE ~db_has(db, layout_H(h))

\* A block was disconnected: it is still stored, above the tip.
C7_Witness ==
  /\ pc = "idle"
  /\ outcome = "ok"
  /\ op.name = "disconnect"
  /\ db_has(db, layout_e(op.hash))
  /\ HeightOf(op.hash) = TipHeight + 1
  /\ TipHeight > 0

\* C8: after every committed operation the main chain is one n-linked
\* path: n(prevBlock) is the hash of every main-chain entry but genesis,
\* and following n from genesis ends at state.tip, which has no n record.
C8_NextIndex ==
  Committed =>
    /\ \A b \in MainChain \ {GenesisHash} :
         db_get(db, layout_n(Val(db_get(db, layout_e(b))).prevBlock))
           = Some(b)
    /\ FollowNext(GenesisHash, MaxHeight + 1) = state.tip
    /\ ~db_has(db, layout_n(state.tip))

\* The chain was reorganized onto the alternate branch.
C8_Witness ==
  /\ pc = "idle"
  /\ outcome = "ok"
  /\ op.name = "reconnect"
  /\ state.tip \in BranchB
  /\ db_has(db, layout_e(100 + HeightOf(state.tip)))

\* C9 as stated: after every successful commit(), those of compactTree
\* included, tree.rootHash() equals treeState.treeRoot.  It is stated for
\* the behaviours without an I/O error, where no aborted batch has left
\* its tree operations behind.
C9_RootAfterEveryCommit ==
  [][(failures = 0 /\ pc = "commit_prunes" /\ pc' # pc) =>
       tree_rootHash(tree') = treeState'.treeRoot]_vars

\* C9 amended: when commit() installs a tree state committed by _saveNames
\* or by the second batch of compactTree, tree.rootHash() equals the
\* installed treeRoot, and it still does when commit() returns.
C9_RootOfInstalledTreeState ==
  [][/\ (pc = "commit_swap" /\ pc' # pc /\
         Val(pendingTreeState).committed /\ ret # "compact_inject") =>
           (/\ treeState' = Val(pendingTreeState)
            /\ tree_rootHash(tree') = treeState'.treeRoot)
     /\ (pc \in {"commit_promote", "commit_prunes"}) =>
           UNCHANGED <<tree, treeState>>]_vars

\* The second commit of a compaction that rewound the tree below the tip
\* has installed its tree state.
C9_Witness ==
  /\ pc = "commit_prunes"
  /\ op.name = "compactTree"
  /\ ret = "sync"
  /\ treeState.compactionHeight > 0
  /\ tree_rootHash(tree) = treeState.treeRoot
  /\ treeState.treeRoot # RootAfter(state.tip)
  /\ treeState.commitHeight + 1 < TipHeight

\* C10: in every state reached after a committed operation
\* treeState.commitHeight is a multiple of treeInterval, also after the
\* commits of compactTree(entry), whatever the entry.
C10_CommitHeightMultiple ==
  Committed => treeState.commitHeight % TreeInterval = 0

\* C11: in every state reached after a committed connect, reconnect,
\* disconnect or reset step treeState.commitHeight is at most the height
\* of state.tip, also after a block at a multiple of treeInterval was
\* disconnected and the tip moved one below it.
C11_CommitHeightAtMostTip ==
  (Committed /\ pc = "idle" /\ outcome = "ok" /\
   op.name \in {"save", "reconnect", "disconnect", "resetStep"}) =>
    treeState.commitHeight <= TipHeight

\* C12 as stated: for every block on the main chain that spent an input
\* readUndo(hash) is non-null from the commit of its connect until it is
\* disconnected, and it is null after its disconnect has committed.  SPV
\* nodes store no blobs and are left out.
C12_UndoUntilDisconnected ==
  /\ (Committed /\ ~options.spv) =>
       \A b \in MainChain : spendsInputs(b) => hasUndo(b)
  /\ (pc = "idle" /\ outcome = "ok" /\ op.name = "disconnect") =>
       ~hasUndo(op.hash)

\* C12 amended: the commit of a connect leaves the undo coins of a block
\* that spent an input in the blob store, the commit of its disconnect
\* leaves none, and in between they are deleted only by the blob batch of
\* prune() or, with pruning enabled, by the commit of the connect of the
\* block keepBlocks above it.
C12_UndoUntilDisconnectedOrPruned ==
  /\ []((pc = "idle" /\ outcome = "ok" /\ op.view # Null /\ ~options.spv /\
         op.name \in {"save", "reconnect"} /\ spendsInputs(op.hash)) =>
          hasUndo(op.hash))
  /\ []((pc = "idle" /\ outcome = "ok" /\ op.name = "disconnect") =>
          ~hasUndo(op.hash))
  /\ [][\A b \in Hashes :
          (hasUndo(b) /\ ~db_has(blobs', blob_undo(b))) =>
            \/ pc = "prune_blobs"
            \/ /\ pc = "commit_prunes"
               /\ op.name \in {"disconnect", "resetStep"}
               /\ op.hash = b
            \/ /\ pc = "commit_prunes"
               /\ options.prune
               /\ op.name \in {"save", "reconnect"}
               /\ HeightOf(b) = HeightOf(op.hash) - KeepBlocks]_vars

\* prune() has returned true and a block that spent an input is on the
\* main chain without its undo coins.
C12_Witness ==
  /\ pc = "idle"
  /\ outcome = "ok"
  /\ op.name = "prune"
  /\ \E b \in MainChain : spendsInputs(b) /\ ~hasUndo(b)

C14_CoinIffUnspentUnlocked ==
  (Committed /\ failures = 0) =>
    LET unspent == Unspent
    IN \A b \in Hashes : \A o \in OutpointsOf(block_txs(b)) :
         db_has(db, layout_c(o[1], o[2])) <=>
           (o \in unspent /\ ~isLocked(OutputAt(o)))

\* C14 amended: c(txid, i) exists if and only if output i of txid is a
\* spendable output that is unspent on the main chain, whatever its
\* covenant type, and the record is the output.
C14_CoinIffUnspent ==
  Committed =>
    LET unspent == Unspent
    IN \A b \in Hashes : \A o \in OutpointsOf(block_txs(b)) :
         /\ db_has(db, layout_c(o[1], o[2])) <=>
              (o \in unspent /\ ~isUnspendable(OutputAt(o)))
         /\ db_has(db, layout_c(o[1], o[2])) =>
              Val(db_get(db, layout_c(o[1], o[2]))) = OutputAt(o)

\* A REGISTER output is unspent and has its coin record, and a spent coin
\* was restored by a disconnect.
C14_Witness ==
  /\ Committed
  /\ pc = "idle"
  /\ outcome = "ok"
  /\ op.name = "disconnect"
  /\ \E o \in Unspent : /\ isLocked(OutputAt(o))
                        /\ db_has(db, layout_c(o[1], o[2]))
  /\ spendsInputs(op.hash)
  /\ \A i \in 1..Len(block_inputs(op.hash)) :
       db_has(db, layout_c(block_inputs(op.hash)[i][1],
                           block_inputs(op.hash)[i][2]))

\* The records of the key-value store whose key has one of the prefixes
\* are the same in the two stores.
SameRecords(a, b, prefixes) ==
  \A k \in DOMAIN a \cup DOMAIN b :
    k[1] \in prefixes => db_get(a, k) = db_get(b, k)
\* The counters of two chain states are the same.
SameCounters(a, b) ==
  /\ a.tx = b.tx
  /\ a.coin = b.coin
  /\ a.value = b.value
  /\ a.burned = b.burned

C16_DisconnectReconnectRestores ==
  TripAt(<<"disconnect", "reconnect">>, "reconnect") =>
    LET b == Val(trip).hash
        base == Val(trip).base
    IN /\ db = base.db
       /\ db_get(blobs, blob_undo(b)) = db_get(base.blobs, blob_undo(b))
       /\ TreeState_encode(treeState) = TreeState_encode(base.treeState)
       /\ tree_rootHash(tree) = base.root
       /\ txn = base.txn
       /\ SameCounters(state, base.state)
       /\ state.tip = base.state.tip

\* A block at a multiple of treeInterval that spends a coin was
\* disconnected and reconnected.
C16_Witness ==
  /\ TripAt(<<"disconnect", "reconnect">>, "reconnect")
  /\ HeightOf(op.hash) % TreeInterval = 0
  /\ spendsInputs(op.hash)
  /\ hasUndo(op.hash)

\* C17 as stated: prune() returns false, deletes no blob and writes no
\* flag whenever end <= start, the case end = start included.
C17_FalseWhenEndAtMostStart ==
  [][(PruneCalled /\ pruneEnd <= pruneStart) =>
       (outcome' = "false" /\ pc' = "idle" /\ UNCHANGED <<db, blobs>>)]_vars

\* C17 amended: prune() returns false, deletes no blob and writes no flag
\* whenever end < start, that is tip.height <= pruneAfterHeight +
\* keepBlocks; when end = start it goes on to prune the one height start.
C17_FalseWhenEndBelowStart ==
  [][/\ (PruneCalled /\ pruneEnd < pruneStart) =>
          (/\ outcome' = "false"
           /\ pc' = "idle"
           /\ UNCHANGED <<db, blobs, options, state, treeState>>)
     /\ (PruneCalled /\ pruneEnd = pruneStart) =>
          (/\ pc' = "prune_blobs"
           /\ \E b \in MainChain :
                /\ HeightOf(b) = pruneStart
                /\ Val(op'.view) = <<blob_block(b), blob_undo(b)>>)]_vars

\* prune() has returned false with the tip at pruneAfterHeight +
\* keepBlocks, one below the first height at which it prunes.
C17_Witness ==
  /\ pc = "idle"
  /\ outcome = "false"
  /\ op.name = "prune"
  /\ ~options.spv
  /\ TipHeight = PruneAfterHeight + KeepBlocks
  /\ pruneEnd = pruneStart - 1

\* C18: the prune flag is written to O only by prune() after its blob
\* batch has deleted the blobs of the main-chain heights start..end, so
\* that between operations a persisted flag implies that they are deleted,
\* also after a stop of the process or a failed flag write; and after
\* such a stop or failure a later prune() passes its checks, commits its
\* blob batch and writes the flag.
C18_BlobsBeforeFlag ==
  /\ [][(~flagsPrune /\ flagsPrune') =>
          (/\ pc = "prune_flag"
           /\ \A h \in pruneStart..pruneEnd : Pruned(blobs, h)
           /\ UNCHANGED blobs)]_vars
  /\ []((flagsPrune /\ pc = "idle") =>
          \A h \in pruneStart..pruneEnd : Pruned(blobs, h))
  /\ [][(PruneCalled /\ failures > 0 /\ pruneEnd >= pruneStart) =>
          pc' = "prune_blobs"]_vars
  /\ [](pc = "prune_blobs" => ENABLED PruneBlobs)
  /\ [](pc = "prune_flag" => ENABLED PruneFlag)
  /\ [][(pc = "prune_flag" /\ outcome' = "ok") => flagsPrune']_vars

\* After a stop between the blob commit and the flag write, a later
\* prune() has returned true and the flag is persisted.
C18_Witness ==
  /\ pc = "idle"
  /\ outcome = "ok"
  /\ op.name = "prune"
  /\ failures > 0
  /\ flagsPrune
  /\ state.committed = FALSE

C20_ModeConflictsThrow ==
  /\ [][\A name \in {"reset", "prune", "lookup", "prove"} :
          Threw(name) =>
            UNCHANGED <<db, blobs, tree, txn, state, treeState, options,
                        pending, pendingTreeState, current, blocksBatch>>]_vars
  /\ []((pc = "idle" /\ outcome = "threw" /\
         op.name \in {"reset", "prune", "lookup", "prove"}) => NoBatch)
  /\ [][(pc = "idle" /\ op'.name = "removeChains") =>
          /\ ~options.prune
          /\ treeState.compactionHeight = 0
          /\ Stored(op'.target)
          /\ op'.target \in MainChain]_vars
  /\ [][(pc = "idle" /\ op'.name = "prune" /\ flagsPrune) =>
          outcome' = "threw"]_vars
  /\ [][(pc = "idle" /\ op'.name \in {"lookup", "prove"} /\ options.spv) =>
          outcome' = "threw"]_vars

\* prune() was refused because the flag is persisted, with blocks
\* connected after the pruning.
C20_Witness ==
  /\ pc = "idle"
  /\ outcome = "threw"
  /\ op.name = "prune"
  /\ flagsPrune
  /\ pruneEnd >= pruneStart
  /\ \E b \in MainChain : HeightOf(b) > PruneAfterHeight /\ db_has(blobs, blob_block(b))

(***************************************************************************)
(* compactTree() of a tree that is already compacted.                      *)
(***************************************************************************)
\* A compactTree(entry) call is under observation.
CompactObserved == trip # Null /\ Val(trip).legs = <<"compactTree">>
\* The observed call found the tree compacted already.
CompactedBefore ==
  CompactObserved /\ Val(trip).base.treeState.compactionHeight # 0
\* The observed compactTree(entry) has returned: its second commit is done
\* and the chain has not yet begun to re-sync the tree.
CompactReturned == CompactObserved /\ pc = "sync" /\ op.name = "compactTree"

\* C21: compactTree(entry) on a tree that is already compacted
\* (treeState.compactionHeight # 0) throws before it changes anything:
\* treeState, the s record, the tree root and the txn are the ones before
\* the call, and no batch was started.
C21_CompactedFailsFast ==
  CompactedBefore =>
    LET base == Val(trip).base
    IN /\ pc = "idle"
       /\ outcome = "threw"
       /\ current = Null
       /\ treeState = base.treeState
       /\ db_get(db, layout_s) = db_get(base.db, layout_s)
       /\ tree_rootHash(tree) = base.root
       /\ txn = base.txn

\* C22: when compactTree(entry) returns on a tree that was already
\* compacted at the root of the entry, treeState (treeRoot, commitHeight,
\* compactionHeight), the tree root and every name state read through
\* getNameState are the ones before the call.
C22_SameRootNoOp ==
  (/\ CompactReturned
   /\ CompactedBefore
   /\ Val(trip).base.treeState.compactionRoot = EntryOf(op.hash).treeRoot) =>
    LET base == Val(trip).base
    IN /\ treeState.treeRoot = base.treeState.treeRoot
       /\ treeState.commitHeight = base.treeState.commitHeight
       /\ treeState.compactionHeight = base.treeState.compactionHeight
       /\ tree_rootHash(tree) = base.root
       /\ \A n \in NameHashes : getNameState(n) = txn_get(base.txn, n)
(***************************************************************************)
(* reset()                                                                 *)
(***************************************************************************)
\* A reset(block) call is under observation.
ResetObserved == trip # Null /\ Val(trip).legs = <<"reset">>
\* The observed reset(block) has returned: the iteration that stops at the
\* target has committed.
ResetReturned ==
  /\ ResetObserved
  /\ pc = "idle"
  /\ outcome = "ok"
  /\ op.name = "resetStep"
  /\ op.hash = op.target
  /\ op.target = Val(trip).hash
\* The blocks from block t down to the genesis block.
RECURSIVE ChainOf(_)
ChainOf(t) ==
  IF t = GenesisHash \/ t = ZERO_HASH THEN {t} ELSE {t} \cup ChainOf(PrevOf(t))
\* The entries of the alternate chains when the observed call began: those
\* on the chain of a tip of the tip set that were not on the main chain.
AlternateBefore ==
  {b \in Hashes :
     /\ db_get(Val(trip).base.db, layout_H(HeightOf(b))) # Some(b)
     /\ \E t \in Hashes :
          db_has(Val(trip).base.db, layout_p(t)) /\ b \in ChainOf(t)}
\* Key k of the key-value store is the p, h or e record of one of the
\* entries of S.
EntryKeyOf(k, S) == k[1] \in {"p", "h", "e"} /\ k[2] \in S

\* C23: reset(block) with block the current tip is a no-op: every
\* key-value record, every blob, state and treeState are the ones before
\* the call.
C23_ResetTipNoOp ==
  (ResetReturned /\ Val(trip).base.state.tip = Val(trip).hash) =>
    LET base == Val(trip).base
    IN /\ db = base.db
       /\ blobs = base.blobs
       /\ state = base.state
       /\ treeState = base.treeState

\* C23, amended: reset(block) with block the current tip leaves state,
\* treeState and every record and blob of the main chain as they were, and
\* removes the p, h and e records and the block blob of every entry of an
\* alternate chain.
C23_ResetTipKeepsMain ==
  (ResetReturned /\ Val(trip).base.state.tip = Val(trip).hash) =>
    LET base == Val(trip).base
        alt == AlternateBefore
    IN /\ state = base.state
       /\ treeState = base.treeState
       /\ \A k \in DOMAIN db \cup DOMAIN base.db :
            IF EntryKeyOf(k, alt) THEN ~db_has(db, k)
            ELSE db_get(db, k) = db_get(base.db, k)
       /\ \A k \in DOMAIN blobs \cup DOMAIN base.blobs :
            IF \E b \in alt : k = blob_block(b) THEN ~db_has(blobs, k)
            ELSE db_get(blobs, k) = db_get(base.blobs, k)
       /\ (alt = {} => db = base.db /\ blobs = base.blobs)

\* reset(tip) has returned with an alternate chain stored before the call.
C23_Witness ==
  /\ ResetReturned
  /\ Val(trip).base.state.tip = Val(trip).hash
  /\ \E b \in AlternateBefore :
       /\ db_has(Val(trip).base.db, layout_p(b))
       /\ db_has(Val(trip).base.blobs, blob_block(b))
       /\ ~db_has(db, layout_e(b))

\* The blocks of the main chain above the target when the observed reset
\* began.
MainAboveBefore ==
  {b \in Hashes :
     /\ db_get(Val(trip).base.db, layout_H(HeightOf(b))) = Some(b)
     /\ HeightOf(b) > HeightOf(Val(trip).hash)}
\* The blocks of the main chain up to the target when the observed reset
\* began.
MainUpToBefore ==
  {b \in Hashes :
     /\ db_get(Val(trip).base.db, layout_H(HeightOf(b))) = Some(b)
     /\ HeightOf(b) <= HeightOf(Val(trip).hash)}
\* The tip set: the hashes with a p record.
TipSet == {b \in Hashes : db_has(db, layout_p(b))}
\* The H, h, e records, the n(prevBlock) record and the block blob of
\* every block that was on the main chain above the target are deleted.
ResetRemovedAbove ==
  \A b \in MainAboveBefore :
    /\ ~db_has(db, layout_H(HeightOf(b)))
    /\ ~db_has(db, layout_h(b))
    /\ ~db_has(db, layout_e(b))
    /\ ~db_has(db, layout_n(PrevOf(b)))
    /\ ~db_has(blobs, blob_block(b))
\* The p, h and e records of every alternate-chain entry are removed.
ResetRemovedAlternate ==
  \A b \in AlternateBefore :
    /\ ~db_has(db, layout_p(b))
    /\ ~db_has(db, layout_h(b))
    /\ ~db_has(db, layout_e(b))
\* The records of the main-chain blocks up to the target are the ones
\* before the call.
ResetKeptBelow ==
  \A b \in MainUpToBefore :
    /\ db_get(db, layout_H(HeightOf(b))) = db_get(Val(trip).base.db, layout_H(HeightOf(b)))
    /\ db_get(db, layout_h(b)) = db_get(Val(trip).base.db, layout_h(b))
    /\ db_get(db, layout_e(b)) = db_get(Val(trip).base.db, layout_e(b))
    /\ db_get(blobs, blob_block(b)) = db_get(Val(trip).base.blobs, blob_block(b))
    /\ (b # GenesisHash =>
          db_get(db, layout_n(PrevOf(b))) = db_get(Val(trip).base.db, layout_n(PrevOf(b))))

\* C24: after reset(target) returns for a main-chain target, state.tip is
\* the target, the H, h, e, n(prevBlock) records and the block blob of every
\* former main-chain block above the target are deleted, the p, h and e
\* records of every alternate-chain entry are removed, the tip set is
\* exactly {target.hash}, and the records of the blocks up to the target
\* are unchanged.
C24_ResetToTarget ==
  ResetReturned =>
    /\ state.tip = Val(trip).hash
    /\ ResetRemovedAbove
    /\ ResetRemovedAlternate
    /\ TipSet = {Val(trip).hash}
    /\ ResetKeptBelow

(***************************************************************************)
(* save(entry, block, null): the block is stored, not connected.           *)
(***************************************************************************)
\* The operation in progress or just ended is a store-only save.
StoreOnly == op.name = "save" /\ op.view = Null
\* Key k of the key-value store is one of the records that define the main
\* chain: the height and next-block indexes, the chain state and the coins.
MainChainKey(k) == k[1] \in {"H", "n", "R", "c"}
\* The store-only save has committed in this step.
StoreOnlyCommitted == StoreOnly /\ pc # "idle" /\ pc' = "idle" /\ outcome' = "ok"

\* C25: save(entry, block, null) puts no H, n, R or coin record in its
\* batch and changes none in the store, leaves state and treeState as they
\* are at every step, and when it has committed h(hash), e(hash), p(hash)
\* and the block blob are there and p(prevBlock) is not.
C25_StoreOnlyFrame ==
  [][(StoreOnly /\ pc # "idle") =>
       /\ state' = state
       /\ treeState' = treeState
       /\ current' # Null =>
            \A i \in DOMAIN Val(current') : ~MainChainKey(Val(current')[i].key)
       /\ \A k \in DOMAIN db \cup DOMAIN db' :
            MainChainKey(k) => db_get(db', k) = db_get(db, k)
       /\ StoreOnlyCommitted =>
            /\ db_get(db', layout_h(op.hash)) = Some(HeightOf(op.hash))
            /\ db_get(db', layout_e(op.hash)) = Some(EntryOf(op.hash))
            /\ db_has(db', layout_p(op.hash))
            /\ ~db_has(db', layout_p(PrevOf(op.hash)))
            /\ db_has(blobs', blob_block(op.hash))]_vars

\* A store-only save has committed: the block is stored off the main chain.
C25_Witness ==
  /\ StoreOnly
  /\ pc = "idle"
  /\ outcome = "ok"
  /\ db_has(db, layout_p(op.hash))
  /\ db_has(blobs, blob_block(op.hash))
  /\ db_get(db, layout_H(HeightOf(op.hash))) # Some(op.hash)
  /\ state.tip # op.hash

(***************************************************************************)
(* disconnect(entry, block)                                                *)
(***************************************************************************)
\* The observed disconnect(entry, block) has committed.
DisconnectCommitted == TripAt(<<"disconnect">>, "disconnect")
\* The indexes of the block are gone, the coins it spent are back and the
\* coins it created are gone.
DisconnectedFromMain(b) ==
  /\ ~db_has(db, layout_H(HeightOf(b)))
  /\ ~db_has(db, layout_n(PrevOf(b)))
  /\ \A i \in 1..Len(block_inputs(b)) :
       db_get(db, layout_c(block_inputs(b)[i][1], block_inputs(b)[i][2]))
         = Some(OutputAt(block_inputs(b)[i]))
  /\ \A o \in OutpointsOf(block_txs(b)) : ~db_has(db, layout_c(o[1], o[2]))

\* C26: after disconnect(entry, block) commits, p(entry.hash) is absent and
\* p(entry.prevBlock) is present, H(entry.height) and n(entry.prevBlock)
\* are absent, the coins the block spent are restored and the coins it
\* created are absent.
C26_DisconnectMovesTip ==
  DisconnectCommitted =>
    /\ ~db_has(db, layout_p(Val(trip).hash))
    /\ db_has(db, layout_p(PrevOf(Val(trip).hash)))
    /\ DisconnectedFromMain(Val(trip).hash)

\* C26, amended: after disconnect(entry, block) commits, the tip is the
\* previous block, H(entry.height) and n(entry.prevBlock) are absent, the
\* coins the block spent are restored, the coins it created are absent,
\* and every p record is the one before the call: the block keeps its
\* tip record.
C26_DisconnectKeepsTipSet ==
  DisconnectCommitted =>
    /\ state.tip = PrevOf(Val(trip).hash)
    /\ DisconnectedFromMain(Val(trip).hash)
    /\ SameRecords(db, Val(trip).base.db, {"p"})

\* A block that spends coins and was saved as a tip has been disconnected.
C26_Witness ==
  /\ DisconnectCommitted
  /\ spendsInputs(op.hash)
  /\ db_has(Val(trip).base.db, layout_p(op.hash))
  /\ db_has(db, layout_p(op.hash))
  /\ ~db_has(db, layout_p(PrevOf(op.hash)))

(***************************************************************************)
(* scan(start, filter, iter)                                               *)
(***************************************************************************)
\* The calls of iter of the scan.
ScanCalls == Val(reader.result)
\* scan(start, filter, iter) has returned.
ScanReturned ==
  pc = "idle" /\ op.name = "scan" /\ outcome = "ok" /\ reader.pc = "done"
\* Call i of iter was made for the main-chain entry i - 1 blocks above the
\* start.
ScanInOrder ==
  \A i \in DOMAIN ScanCalls :
    db_get(db, layout_H(HeightOf(op.hash) + i - 1)) = Some(ScanCalls[i].hash)
\* Every call of iter but the last has resolved, and a call for a block
\* whose blob is not there has no transactions.
ScanAwaited ==
  /\ \A i \in DOMAIN ScanCalls :
       /\ i < Len(ScanCalls) => ScanCalls[i].resolved
       /\ getBlock(ScanCalls[i].hash) = Null => ScanCalls[i].txs = <<>>
  /\ reader.pc \in {"scan", "done"} => \A i \in DOMAIN ScanCalls : ScanCalls[i].resolved
\* The properties of a scan in progress or returned.
ScanSafe ==
  /\ (op.name = "scan" /\ (pc = "scan" \/ ScanReturned)) =>
       /\ ScanInOrder
       /\ ScanAwaited
  /\ (ScanReturned /\ db_get(db, layout_H(HeightOf(op.hash))) = Some(op.hash)) =>
       /\ Len(ScanCalls) = TipHeight - HeightOf(op.hash) + 1
       /\ ScanCalls[Len(ScanCalls)].hash = state.tip
       /\ ~db_has(db, layout_n(state.tip))
  /\ (op.name = "scan" /\ reader.pc = "threw") =>
       ~options.spv /\ ~options.prune
  /\ (op.name = "scan" /\ reader.pc = "refused") =>
       db_get(db, layout_H(HeightOf(op.hash))) # Some(op.hash)

PendingPrunes ==
  IF blocksBatch = Null THEN {}
  ELSE {Val(blocksBatch).prunes[i] : i \in DOMAIN Val(blocksBatch).prunes}
         \cap DOMAIN blobs

\* C28: a failure of commitPrunes() in step 6 of commit() does not fail
\* the operation: the caller sees it succeed, with state and treeState
\* already swapped, and the prunes that were not done are in the blob batch
\* of the next start().
C28_PruneFailureTolerated ==
  [][/\ (pc = "commit_prunes" /\ failures' = failures + 1) =>
          /\ outcome' = "ok"
          /\ pending' = Null
          /\ state' = state
          /\ treeState' = treeState
     /\ (pc = "idle" /\ pc' = "body" /\ PendingPrunes # {}) =>
          \A k \in PendingPrunes :
            \E i \in DOMAIN Val(blocksBatch').prunes :
              Val(blocksBatch').prunes[i] = k]_vars

(***************************************************************************)
(* disconnect(entry, block) with undo coins that do not match the block    *)
(***************************************************************************)
\* The stored undo coins of block b are not one per input of the block.
UndoMismatch(b) == Len(getUndoCoins(b)) # Len(block_inputs(b))

\* C29: disconnect(entry, block) of a block whose stored undo coins do not
\* match its inputs (none although it spent inputs, or coins left over)
\* throws, the batch is dropped, and the key-value records, the blobs,
\* state and treeState are the ones before the call.
C29_UndoMismatchAborts ==
  [][(pc = "body" /\ op.name = "disconnect" /\ UndoMismatch(op.hash)) =>
       /\ pc' = "idle"
       /\ outcome' = "dropped"
       /\ current' = Null
       /\ pending' = Null
       /\ blocksBatch' = Null
       /\ db' = Val(snap).db
       /\ blobs' = Val(snap).blobs
       /\ state' = Val(snap).state
       /\ treeState' = Val(snap).treeState]_vars

\* A disconnect was aborted on undo coins left over, or on a missing undo
\* blob of a block that spent inputs.
C29_Witness ==
  /\ pc = "idle"
  /\ outcome = "dropped"
  /\ op.name = "disconnect"
  /\ state.tip = op.hash
  /\ \/ Len(getUndoCoins(op.hash)) > Len(block_inputs(op.hash))
     \/ ~hasUndo(op.hash) /\ spendsInputs(op.hash)

(***************************************************************************)
(* open() of an existing database                                          *)
(***************************************************************************)
\* open() of an existing database has returned and the chain has not yet
\* replayed the names above the committed root.
Reopened ==
  /\ trip # Null
  /\ Val(trip).legs = <<"open">>
  /\ pc = "sync"
  /\ op.name = "open"
\* The tree root persisted in the s record.
PersistedRoot == TreeState_decode(Val(db_get(db, layout_s))).treeRoot

\* C30: after open() of an existing database of a full node, whatever was
\* written to the tree after the last key-value commit, tree.rootHash() is
\* the persisted treeState.treeRoot, which is this.treeState.treeRoot, and
\* the txn reads every name as the tree at that root does.
C30_OpenAtPersistedRoot ==
  Reopened =>
    /\ tree_rootHash(tree) = PersistedRoot
    /\ treeState.treeRoot = PersistedRoot
    /\ \A n \in NameHashes : txn_get(txn, n) = txn_get(PersistedRoot, n)

\* The database was opened again after a stop that left the tree, or the
\* txn, ahead of the persisted root.
C30_Witness ==
  /\ Reopened
  /\ \/ Val(trip).base.root # PersistedRoot
     \/ Val(trip).base.txn # PersistedRoot
  /\ \E root \in tree.history : root # PersistedRoot

(***************************************************************************)
(* The height cache under readers                                          *)
(***************************************************************************)
\* Every entry of the height cache is the block the H record of its height
\* names.
HeightCacheCommitted ==
  \A i \in DOMAIN cacheHeight.items :
    db_get(db, layout_H(cacheHeight.items[i].key))
      = Some(cacheHeight.items[i].value)
\* The suspended getEntryByHeight puts its entry in the height cache in
\* this step.
HeightInserted ==
  /\ reader.pc = "gotE"
  /\ reader.result # Null
  /\ reader'.pc = "done"
  /\ cacheHeight' # cacheHeight

\* C31: getEntryByHeight puts the entry it read in the height cache only
\* if this.state was not replaced between the start of its read of
\* H(height) and its completion, and whenever no batch is in progress the
\* height cache maps no height to a block other than the one H(height)
\* names.
C31_HeightCacheGuard ==
  /\ [][HeightInserted => ~reader.moved]_vars
  /\ []((pc = "idle" /\ current = Null) => HeightCacheCommitted)

(***************************************************************************)
(* The long-lived tree transaction                                         *)
(***************************************************************************)
\* open() of the existing database has injected the persisted root.
InjectedByOpen == failures' # failures /\ op'.name = "open" /\ pc' = "sync"
\* compactTree has injected and compacted and goes on to its second batch.
InjectedByCompact == pc = "compact_compact" /\ pc' = "commit"
\* The body of a disconnect at a multiple of the tree interval has injected
\* entry.treeRoot.
InjectedByRevert ==
  /\ pc = "body"
  /\ op.name = "disconnect"
  /\ HeightOf(op.hash) % TreeInterval = 0
  /\ pc' = "commit"
\* close() has returned.
ClosedNow == pc = "idle" /\ pc' = "shut"
\* The txn after the loop of _saveNames over the name undo of the block.
TxnReverted ==
  LET raw == db_get(db, layout_w(HeightOf(op.hash)))
  IN IF raw = Null THEN txn
     ELSE txn_apply(txn, Val(raw), DOMAIN Val(raw))

\* C32 (as stated): after every tree.inject, in open, in compactTree and
\* in the revert path of _saveNames, and after close, the txn is the one
\* tree.txn() gives before it is used again.
C32_TxnRebuiltAfterInject ==
  [][(InjectedByOpen \/ InjectedByCompact \/ InjectedByRevert \/ ClosedNow)
       => txn' = tree_txn(tree')]_vars

\* C32 (amended): the txn is the one tree.txn() gives after the inject of
\* open, after inject and compact of compactTree and after close; the
\* revert path of _saveNames injects entry.treeRoot and keeps the txn,
\* which holds the names reverted with the undo of the block.
C32_TxnRebuiltOrReverted ==
  [][/\ (InjectedByOpen \/ InjectedByCompact \/ ClosedNow)
          => txn' = tree_txn(tree')
     /\ InjectedByRevert
          => (tree'.root = EntryOf(op.hash).treeRoot /\ txn' = TxnReverted)
    ]_vars

\* A disconnect at a multiple of the tree interval has injected the root of
\* the header and the txn kept differs from the one tree.txn() would give;
\* the tree was compacted, closed and opened before.
C32_Witness ==
  /\ pc = "commit"
  /\ op.name = "disconnect"
  /\ HeightOf(op.hash) % TreeInterval = 0
  /\ tree.root = EntryOf(op.hash).treeRoot
  /\ txn # tree_txn(tree)
  /\ failures > 0

(***************************************************************************)
(* The tree interval                                                       *)
(***************************************************************************)
\* The operation in progress connects a block to the main chain.
Connecting == (op.name = "save" /\ op.view # Null) \/ op.name = "reconnect"
\* The operation in progress disconnects the tip.
Disconnecting == op.name = "disconnect"
\* The block of the operation is at a multiple of the tree interval.
AtInterval == HeightOf(op.hash) % TreeInterval = 0
\* The operation returns in this step, its batch committed.
NamesCommitted == pc = "commit_prunes" /\ pc' = "idle" /\ outcome' = "ok"
\* The name states a disconnect of the block restores.
NamesUndone ==
  LET raw == db_get(Val(snap).db, layout_w(HeightOf(op.hash)))
  IN IF raw = Null THEN Val(snap).txn
     ELSE txn_apply(Val(snap).txn, Val(raw), DOMAIN Val(raw))

\* C33: a connect or disconnect of a block whose height is no multiple of
\* treeInterval changes tree.rootHash(), treeState and the s record in no
\* step and, when it has committed, has staged the names in the txn only;
\* a connect at a multiple has committed the txn and made treeState
\* (tree.rootHash(), entry.height); a disconnect at a multiple has
\* injected entry.treeRoot.
C33_TreeInterval ==
  [][((Connecting \/ Disconnecting) /\ pc # "idle") =>
       /\ ~AtInterval =>
            /\ tree_rootHash(tree') = tree_rootHash(tree)
            /\ treeState' = treeState
            /\ db_get(db', layout_s) = db_get(db, layout_s)
       /\ (~AtInterval /\ NamesCommitted) =>
            /\ Connecting =>
                 txn' = txn_apply(Val(snap).txn, BlockNames(op.hash),
                                  DOMAIN BlockNames(op.hash))
            /\ Disconnecting => txn' = NamesUndone
            /\ tree_rootHash(tree') = Val(snap).root
       /\ (AtInterval /\ NamesCommitted /\ Connecting) =>
            /\ tree_rootHash(tree') = txn'
            /\ treeState'.treeRoot = tree_rootHash(tree')
            /\ treeState'.commitHeight = HeightOf(op.hash)
            /\ db_get(db', layout_s) = Some(TreeState_encode(treeState'))
       /\ (AtInterval /\ NamesCommitted /\ Disconnecting) =>
            /\ tree_rootHash(tree') = EntryOf(op.hash).treeRoot
            /\ treeState'.treeRoot = tree_rootHash(tree')
            /\ db_get(db', layout_s) = Some(TreeState_encode(treeState'))
    ]_vars

\* A block with names was connected at a height that is no multiple of the
\* tree interval: the txn holds its names, the tree does not.
C33_Witness ==
  /\ pc = "idle"
  /\ outcome = "ok"
  /\ Connecting
  /\ ~AtInterval
  /\ state.tip = op.hash
  /\ txn # tree_txn(tree)
  /\ txn = NamesAfter(op.hash)
  /\ treeState.commitHeight < HeightOf(op.hash)

(***************************************************************************)
(* The counters of the chain state                                         *)
(***************************************************************************)
\* The outputs block b creates that are added to value: spendable, outside
\* the locked range, and no claim after the first of its name.
Credited(b) ==
  {o \in Spendable(block_txs(b)) : /\ ~isLocked(OutputAt(o))
                                   /\ ~laterClaim(OutputAt(o))}
\* The REGISTER outputs block b creates.
Registered(b) == {o \in Spendable(block_txs(b)) : isRegister(OutputAt(o))}
\* The outputs block b spends that are outside the locked range.
Debited(b) ==
  {o \in {block_inputs(b)[i] : i \in 1..Len(block_inputs(b))} :
     ~isLocked(OutputAt(o))}

\* C34: the connect of a block adds its transactions to tx, the value of
\* its REGISTER outputs to burned, and to value and coin the outputs it
\* creates outside the locked range REGISTER..REVOKE, a claim only when
\* its item 5 is 1, less the unlocked outputs it spends; the disconnect
\* that follows gives tx, coin, value and burned the values they had
\* before the connect.
C34_CountersSymmetric ==
  /\ TripAt(<<"save">>, "save") =>
       LET b == Val(trip).hash
           base == Val(trip).base.state
       IN /\ state.tx = base.tx + TxCount(b)
          /\ state.burned = base.burned + SumValues(Registered(b))
          /\ state.value = base.value + SumValues(Credited(b))
                                      - SumValues(Debited(b))
          /\ state.coin = base.coin + Cardinality(Credited(b))
                                    - Cardinality(Debited(b))
  /\ TripAt(<<"save", "disconnect">>, "disconnect") =>
       SameCounters(state, Val(trip).base.state)

\* A block that spends a later claim and a locked coin and creates a
\* locked output was connected and disconnected.
C34_Witness ==
  /\ TripAt(<<"save", "disconnect">>, "disconnect")
  /\ \E o \in Debited(op.hash) : laterClaim(OutputAt(o))
  /\ \E i \in 1..Len(block_inputs(op.hash)) :
       isLocked(OutputAt(block_inputs(op.hash)[i]))
  /\ \E o \in Spendable(block_txs(op.hash)) : isLocked(OutputAt(o))
  /\ state.value > 0

(***************************************************************************)
(* The two batches of compactTree                                          *)
(***************************************************************************)
\* compactTree(entry) is running, observed from its start.
Compacting ==
  /\ op.name = "compactTree"
  /\ trip # Null
  /\ Val(trip).legs = <<"compactTree">>
\* The first batch of compactTree is being built or committed.
CompactFirstBatch ==
  /\ Compacting
  /\ ret = "compact_inject"
  /\ pc \in {"commit", "commit_kv", "commit_swap", "commit_promote",
             "commit_prunes"}
\* The first batch of compactTree has reached the store and the second
\* has not.
CompactBetween ==
  /\ Compacting
  /\ \/ ret = "compact_inject" /\
          pc \in {"commit_swap", "commit_promote", "commit_prunes"}
     \/ pc \in {"compact_inject", "compact_compact"}
     \/ ret = "sync" /\ pc \in {"commit", "commit_kv"}
\* The process stops and open() runs on the existing database in this step.
OpenedAgain == failures' # failures /\ op'.name = "open"
\* The s record of a store.
PersistedTreeState(d) == Val(db_get(d, layout_s))

\* C35: the first batch of compactTree(entry) leaves the tree as it is and
\* persists s with entry.treeRoot, entry.height - 1 and the compaction
\* height as it was; while compactTree runs the persisted compaction height
\* changes only in the write of the second batch, which follows
\* tree.compact; and when the process stops between the two batches, s
\* names entry.treeRoot with the old compaction height and the open() that
\* follows injects entry.treeRoot: the tree is at that root when it holds
\* it, and open() throws when it does not.
C35_CompactTwoBatches ==
  [][/\ (CompactFirstBatch /\ ~OpenedAgain) =>
          /\ tree' = tree
          /\ (pc = "commit_kv" /\ pc' = "commit_swap") =>
               /\ PersistedTreeState(db').treeRoot = EntryOf(op.hash).treeRoot
               /\ PersistedTreeState(db').commitHeight = HeightOf(op.hash) - 1
               /\ PersistedTreeState(db').compactionHeight =
                    Val(trip).base.treeState.compactionHeight
     /\ (Compacting /\ ~OpenedAgain /\
         PersistedTreeState(db').compactionHeight #
           PersistedTreeState(db).compactionHeight) =>
          /\ ret = "sync"
          /\ pc = "commit_kv"
          /\ tree = tree_compact(tree)
          /\ tree_rootHash(tree) = EntryOf(op.hash).treeRoot
          /\ PersistedTreeState(db').compactionHeight = HeightOf(op.hash)
     /\ (CompactBetween /\ OpenedAgain) =>
          /\ PersistedTreeState(db).treeRoot = EntryOf(op.hash).treeRoot
          /\ PersistedTreeState(db).compactionHeight =
               Val(trip).base.treeState.compactionHeight
          /\ treeState'.treeRoot = EntryOf(op.hash).treeRoot
          /\ IF tree_canInject(tree, EntryOf(op.hash).treeRoot)
             THEN /\ pc' = "sync"
                  /\ tree_rootHash(tree') = EntryOf(op.hash).treeRoot
             ELSE /\ pc' = "closed"
                  /\ tree' = tree
    ]_vars

\* The process stopped after tree.compact of a compaction below the tip,
\* before the second batch was written, and open() has injected the root
\* of the entry, which is not the root the tree had.
C35_Witness ==
  /\ op.name = "open"
  /\ pc = "sync"
  /\ treeState.compactionHeight = 0
  /\ tree = tree_compact(tree)
  /\ treeState.commitHeight + 1 < TipHeight
  /\ tree_rootHash(tree) = treeState.treeRoot
  /\ tree_rootHash(tree) # RootAfter(state.tip)

(***************************************************************************)
(* Aborted batches and the caches                                          *)
(***************************************************************************)
\* The last operation was aborted, by drop() or by the catch block of
\* commit(), and no batch is active.
Aborted ==
  /\ outcome \in {"dropped", "commitFailed"}
  /\ pc = "idle"
  /\ current = Null
\* The v records a batch of the operation in progress may write: those of
\* the deployment states the chain cached while verifying its block.
StagedBits ==
  IF op.name \in {"save", "reconnect"} /\ op.view # Null /\
     HeightOf(op.hash) = TreeInterval
  THEN {layout_v(0, PrevOf(op.hash))}
  ELSE {}
\* The v records the key-value write of this step adds.
WrittenBits == {k \in DOMAIN db' \ DOMAIN db : k[1] = "v"}

\* C36: after every abort, by drop() or by a failed blob or key-value
\* write of commit(), no entry staged in the hash and height caches and no
\* update of the state cache is left, and the key-value write of a batch
\* adds no v(bit, hash) record other than those staged for that batch.
C36_AbortRollsBackCaches ==
  /\ [](Aborted => /\ cacheHash.pending = <<>>
                   /\ cacheHeight.pending = <<>>
                   /\ stateCache.updates = <<>>)
  /\ [][(pc = "commit_kv" /\ pc' = "commit_swap") =>
          WrittenBits \subseteq StagedBits]_vars

(***************************************************************************)
(* Entries and block blobs                                                 *)
(***************************************************************************)
\* C37: on a full node that does not prune, in every state of the two
\* stores, those in the middle of commit() and those left by a failed
\* step of commit() included, every block with an e record has its block
\* blob.
C37_EntryHasBlob ==
  ~options.spv =>
    \A b \in Hashes : db_has(db, layout_e(b)) => db_has(blobs, blob_block(b))

\* A failed step of commit() has left the blob of a block that has no e
\* record, next to the blocks of a chain above the genesis block.
C37_Witness ==
  /\ outcome \in {"commitFailed", "pruneFailed"}
  /\ pc = "idle"
  /\ \E b \in Hashes : db_has(blobs, blob_block(b)) /\ ~db_has(db, layout_e(b))
  /\ state.tip # GenesisHash
  /\ db_has(db, layout_e(state.tip))

(***************************************************************************)
(* The deployment table across open() calls                                *)
(***************************************************************************)
\* open() of the existing database has run in this step, with the table
\* network'.
Upgraded == pc = "shut" /\ op'.name = "open"
\* The parameters of the bit in the table the node ran with are those of
\* the table it is started with.
SameDeployment(bit) ==
  /\ bit \in DOMAIN network
  /\ bit \in DOMAIN network'
  /\ network'[bit] = network[bit]

\* C38: when open() has verified the deployments, the persisted table D is
\* the table of the network and no v(bit, hash) record is left of a bit
\* whose parameters in the table of the network differ from those the node
\* ran with before, whatever tables the earlier open() calls were given.
C38_DeploymentsVerified ==
  [][Upgraded =>
       /\ db_get(db', layout_D) = Some(writeDeployments(network'))
       /\ \A k \in DOMAIN db' : k[1] = "v" => SameDeployment(k[2])]_vars

(***************************************************************************)
(* The range of the counters                                               *)
(***************************************************************************)
\* The unspent outputs of the main chain that were added to value when
\* their block was connected.
CreditedUnspent ==
  {o \in Unspent : /\ ~isUnspendable(OutputAt(o))
                   /\ ~isLocked(OutputAt(o))
                   /\ ~laterClaim(OutputAt(o))}

\* C39: after every committed connect or disconnect the counters tx, coin,
\* value and burned are not below zero, and value and coin hold exactly the
\* outputs that were added and not spent since: nothing was subtracted
\* that had not been added, the claims after the first of their name
\* included.
C39_CountersInRange ==
  Committed =>
    /\ state.tx >= 0
    /\ state.coin >= 0
    /\ state.value >= 0
    /\ state.burned >= 0
    /\ state.value = SumValues(CreditedUnspent)
    /\ state.coin = Cardinality(CreditedUnspent)

(***************************************************************************)
(* reset(): the state after each iteration, and a reset that is stopped    *)
(* and started again.                                                      *)
(***************************************************************************)
\* reset() is in progress: removeChains() or one of the iterations.
Resetting == op.name \in {"removeChains", "resetStep"} /\ pc # "idle"
\* The process stops while reset() is in progress and the database is
\* opened again.
ResetCrash == Resetting /\ Reopen

\* The writer that connects, disconnects and resets, with failing batches,
\* stopped during a reset and started again.
NextReset ==
  \/ Open
  \/ OpenDone
  \/ Save
  \/ SaveAlternate
  \/ Reconnect
  \/ Disconnect
  \/ Reset
  \/ ResetTip
  \/ ResetNext
  \/ Sync
  \/ Body
  \/ BodyThrowsEarly
  \/ BodyThrowsTree
  \/ CommitWrites
  \/ CommitWritesFail
  \/ CommitKV
  \/ CommitKVFail
  \/ CommitSwap
  \/ CommitPromote
  \/ CommitPrunes
  \/ ResetCrash

SpecReset == Init /\ [][NextReset]_vars

\* The sum of a counter's changes over the blocks of a set.
RECURSIVE ChainCounter(_, _)
ChainCounter(kind, S) ==
  IF S = {} THEN 0
  ELSE LET b == CHOOSE x \in S : TRUE
           d == CASE kind = "tx" -> TxCount(b)
                  [] kind = "burned" -> SumValues(Registered(b))
                  [] kind = "value" ->
                       SumValues(Credited(b)) - SumValues(Debited(b))
                  [] kind = "coin" ->
                       Cardinality(Credited(b)) - Cardinality(Debited(b))
       IN d + ChainCounter(kind, S \ {b})

\* An iteration of reset() that removes a block has written its batch: the
\* block is op.hash.
IterationWritten ==
  /\ op.name = "resetStep"
  /\ op.hash # op.target
  /\ ret = "reset_next"
  /\ pc \in {"commit_swap", "commit_promote", "commit_prunes", "reset_next"}
\* The iteration has committed and the loop has not gone on.
IterationCommitted == IterationWritten /\ pc = "reset_next"
\* The database after the iteration is a chain that ends just below the
\* removed block.
ChainEndsBelow(removed) ==
  LET tip == PrevOf(removed)
      R == ChainState_decode(Val(db_get(db, layout_R)))
  IN /\ R.tip = tip
     /\ MainChain = ChainOf(tip)
     /\ ~db_has(db, layout_H(HeightOf(removed)))
     /\ ~db_has(db, layout_h(removed))
     /\ ~db_has(db, layout_e(removed))
     /\ ~db_has(db, layout_n(tip))
     /\ TipSet = {tip}
     /\ \A b \in Hashes : \A o \in OutpointsOf(block_txs(b)) :
          db_has(db, layout_c(o[1], o[2])) <=>
            (o \in Unspent /\ ~isUnspendable(OutputAt(o)))
     /\ R.tx = ChainCounter("tx", MainChain)
     /\ R.burned = ChainCounter("burned", MainChain)
     /\ R.value = ChainCounter("value", MainChain)
     /\ R.coin = ChainCounter("coin", MainChain)
\* The batch of an iteration removes the e record of one block at most.
OneBlockPerBatch ==
  [][op.name = "resetStep" =>
       Cardinality({b \in Hashes : /\ db_has(db, layout_e(b))
                                   /\ ~db_has(db', layout_e(b))}) <= 1]_vars
\* reset() ends early only in a step in which a batch fails.
ResetEndsOnlyOnFailure ==
  [][(Resetting /\ pc' = "idle" /\ outcome' # "ok") =>
       failures' # failures]_vars

\* C40: reset(target) removes one block per committed batch; after each
\* intermediate commit the database is a chain that ends at the block just
\* below the removed one (state.tip and R name it, the H, h, e records of
\* the removed block and the n record of the new tip are gone, the p
\* records hold exactly the new tip, the coins and the counters are those
\* of that chain); a reset that returns leaves the target as the tip, also
\* after the process was stopped during an earlier reset and the database
\* opened again.
C40_IterationState ==
  /\ IterationWritten => ChainEndsBelow(op.hash)
  /\ IterationCommitted =>
       /\ state.tip = PrevOf(op.hash)
       /\ db_get(db, layout_R) = Some(ChainState_encode(state))
  /\ (pc = "idle" /\ op.name = "resetStep" /\ outcome = "ok") =>
       state.tip = op.target
====
